---- MODULE Spec2Model ----
(***************************************************************************)
(* A model of documix (src/documix/documix.py): the conversion dispatcher  *)
(* process_file, the per-format fallback chains, ZIP expansion and email   *)
(* processing, run against a file system and external tools whose outcomes *)
(* are chosen by the environment.                                          *)
(*                                                                         *)
(* Representation.  A file name is a sequence of one-character strings, a  *)
(* path a sequence of names.  A text is a sequence of segments, a segment  *)
(* a sequence of strings: a literal of the code is a one-element segment,  *)
(* an interpolated name or path its character sequence.  A conversion      *)
(* method is the sequence of its "+"-separated tokens, each a segment.     *)
(* Every operation returns the SET of its possible results, one per        *)
(* outcome of the external calls it makes; a result carries the world      *)
(* (file system, temp_dirs, the uvx cache, the call log) it leaves.        *)
(***************************************************************************)
EXTENDS Integers, Sequences, FiniteSets, TLC

VARIABLES
    Fs,                 \* the file system: path -> node
    temp_dirs,          \* DocumentCompiler.temp_dirs
    uvx_available,      \* DocumentCompiler._uvx_available: "None", "True", "False"
    DOCX2TXT_AVAILABLE, \* module flag set at import time
    hash_seed,          \* the interpreter's string-hash seed (fixes set iteration order)
    tmp_count,          \* how many temporary names tempfile has handed out
    clock,              \* logical time, stamps modification times
    scenario,           \* which initial directory this run started from
    calls,              \* external calls made by the operation that ran last
    last,               \* what the operation that ran last returned or raised
    ops,                \* how many operations have run on this instance
    given,              \* force_format of the instance and the arguments of a helper call
    value               \* what the helper called last returned

vars == <<Fs, temp_dirs, uvx_available, DOCX2TXT_AVAILABLE, hash_seed,
          tmp_count, clock, scenario, calls, last, ops, given, value>>

-----------------------------------------------------------------------------
(* Bounds of the model *)

\* operations run on one DocumentCompiler instance
MaxOps == 2

\* files in a list handed to detect_processing_mode
MaxFiles == 2

\* characters in a text handed to estimate_tokens
MaxText == 4

-----------------------------------------------------------------------------
(* Characters and strings: str.lower, comparison, os.path.splitext *)

AsciiOrder ==
    <<".", "/", "0", "1", "2", "3", "4", "5", "6", "7", "8", "9",
      "A", "B", "C", "D", "E", "F", "G", "H", "I", "J", "K", "L", "M",
      "N", "O", "P", "Q", "R", "S", "T", "U", "V", "W", "X", "Y", "Z",
      "_",
      "a", "b", "c", "d", "e", "f", "g", "h", "i", "j", "k", "l", "m",
      "n", "o", "p", "q", "r", "s", "t", "u", "v", "w", "x", "y", "z">>

Ord(c) == CHOOSE i \in 1..Len(AsciiOrder) : AsciiOrder[i] = c

IsUpper(c) == \E i \in 13..38 : AsciiOrder[i] = c

\* str.lower on one character: "A" is 27 places before "a" in AsciiOrder
LowerChar(c) == IF IsUpper(c) THEN AsciiOrder[Ord(c) + 27] ELSE c

\* str.lower
Lower(s) == [i \in 1..Len(s) |-> LowerChar(s[i])]

\* s < t for strings, as list.sort compares them
RECURSIVE StrLess(_, _)
StrLess(s, t) ==
    IF s = <<>> THEN t # <<>>
    ELSE IF t = <<>> THEN FALSE
    ELSE IF s[1] = t[1] THEN StrLess(Tail(s), Tail(t))
    ELSE Ord(s[1]) < Ord(t[1])

\* the index of the dot that starts the extension of a name, 0 if none:
\* the last dot, unless only dots precede it
ExtIndex(name) ==
    LET dots == {i \in 1..Len(name) : name[i] = "."}
        last_dot == CHOOSE i \in dots : \A j \in dots : j <= i
    IN IF dots = {} THEN 0
       ELSE IF \A j \in 1..(last_dot - 1) : name[j] = "." THEN 0
       ELSE last_dot

\* os.path.splitext(name)[1] and [0]
SplitExt(name) ==
    IF ExtIndex(name) = 0 THEN <<>> ELSE SubSeq(name, ExtIndex(name), Len(name))

SplitStem(name) ==
    IF ExtIndex(name) = 0 THEN name ELSE SubSeq(name, 1, ExtIndex(name) - 1)

\* needle occurs in segment seg (Python's substring test)
Occurs(needle, seg) ==
    \E i \in 0..(Len(seg) - Len(needle)) :
        SubSeq(seg, i + 1, i + Len(needle)) = needle

\* needle occurs in some segment of a text
Contains(text, needle) == \E k \in 1..Len(text) : Occurs(needle, text[k])

-----------------------------------------------------------------------------
(* Paths: os.path.basename, dirname, join, and the resolution of ".." *)

DotDot == <<".", ".">>

Basename(path) == path[Len(path)]

Dirname(path) == SubSeq(path, 1, Len(path) - 1)

Join(dir, rel) == dir \o rel

RECURSIVE NormFrom(_, _, _)
NormFrom(path, i, acc) ==
    IF i > Len(path) THEN acc
    ELSE IF path[i] = DotDot
         THEN NormFrom(path, i + 1,
                       IF acc = <<>> THEN <<>> ELSE SubSeq(acc, 1, Len(acc) - 1))
         ELSE NormFrom(path, i + 1, Append(acc, path[i]))

\* the file-system object a path names
Norm(path) == NormFrom(path, 1, <<>>)

\* a path as the string the code sees: its names joined by "/"
RECURSIVE Flat(_)
Flat(path) ==
    IF path = <<>> THEN <<>>
    ELSE IF Len(path) = 1 THEN path[1]
    ELSE path[1] \o <<"/">> \o Flat(Tail(path))

\* the lower-cased extension process_file and the include filter look at
LowerExt(path) == SplitExt(Lower(Basename(path)))

-----------------------------------------------------------------------------
(* File contents and the file system *)

\* an ordinary file's bytes; id "" is the file of 0 bytes
Bytes(id) == [k |-> "bytes", id |-> id, entries |-> {}, parts |-> <<>>, flaw |-> "none"]

\* a ZIP archive: members [rel |-> relative path, data |-> contents];
\* flaw "corrupt": a member's compressed stream is damaged;
\* flaw "encrypted": a member needs a password
Zip(entries, flaw) ==
    [k |-> "zip", id |-> "zip", entries |-> entries, parts |-> <<>>, flaw |-> flaw]

\* a MIME message: its parts in walk order
Eml(parts) == [k |-> "eml", id |-> "eml", entries |-> {}, parts |-> parts, flaw |-> "none"]

\* one MIME part; filename <<>> is "no filename"
Part(disp, filename, ctype, data) ==
    [disp |-> disp, filename |-> filename, ctype |-> ctype, data |-> data]

FileNode(data, mtime, readable) ==
    [t |-> "file", data |-> data, mtime |-> mtime, readable |-> readable]

DirNode == [t |-> "dir", data |-> Bytes(""), mtime |-> 0, readable |-> TRUE]

\* os.path.exists, isdir, isfile
Exists(fs, path) == Norm(path) \in DOMAIN fs

IsDir(fs, path) == Exists(fs, path) /\ fs[Norm(path)].t = "dir"

IsFile(fs, path) == Exists(fs, path) /\ fs[Norm(path)].t = "file"

\* os.path.getsize(path) == 0
IsEmptyFile(fs, path) == fs[Norm(path)].data = Bytes("")

\* the regular files directly inside a directory (os.listdir + isfile)
FilesIn(fs, dir) ==
    {p \in DOMAIN fs : Len(p) = Len(Norm(dir)) + 1 /\ Dirname(p) = Norm(dir)
                       /\ fs[p].t = "file"}

\* every regular file below a directory (os.walk)
FilesBelow(fs, dir) ==
    {p \in DOMAIN fs : /\ Len(p) > Len(Norm(dir))
                       /\ SubSeq(p, 1, Len(Norm(dir))) = Norm(dir)
                       /\ fs[p].t = "file"}

\* every proper prefix of a path, as directories (os.makedirs, extractall)
DirsFor(path) == {SubSeq(path, 1, n) : n \in 1..(Len(path) - 1)}

MakeDirs(fs, dirs) ==
    [p \in DOMAIN fs \cup dirs |-> IF p \in DOMAIN fs THEN fs[p] ELSE DirNode]

PutFile(fs, path, node) ==
    [p \in DOMAIN fs \cup {path} |-> IF p = path THEN node ELSE fs[p]]

Unlink(fs, path) == [p \in DOMAIN fs \ {path} |-> fs[p]]

\* why open(path) for reading fails, "" if it does not
OpenError(fs, path) ==
    IF ~Exists(fs, path) THEN "FileNotFoundError"
    ELSE IF fs[Norm(path)].t = "dir" THEN "IsADirectoryError"
    ELSE IF ~fs[Norm(path)].readable THEN "PermissionError"
    ELSE ""

\* why open(path, 'w') fails, "" if it does not
CreateError(fs, path) ==
    IF Norm(path) = <<>> \/ ~IsDir(fs, Dirname(Norm(path))) THEN "FileNotFoundError"
    ELSE IF IsDir(fs, path) THEN "IsADirectoryError"
    ELSE ""

-----------------------------------------------------------------------------
(* The world an operation runs in, and what an operation yields *)

TmpRoot == <<<<"t", "m", "p">>>>

\* the n-th name tempfile hands out, with the suffix asked for
TmpName(n, suffix) == <<"t", ToString(n)>> \o suffix

\* tempfile.mkdtemp(): a fresh directory
Mkdtemp(w) ==
    LET dir == Append(TmpRoot, TmpName(w.tmp_count + 1, <<>>))
    IN [path |-> dir,
        w |-> [w EXCEPT !.fs = MakeDirs(w.fs, {dir}), !.tmp_count = @ + 1]]

\* tempfile.NamedTemporaryFile(suffix=..., delete=False): a fresh empty file
NamedTemporaryFile(suffix, w) ==
    LET file == Append(TmpRoot, TmpName(w.tmp_count + 1, suffix))
    IN [path |-> file,
        w |-> [w EXCEPT !.fs = PutFile(w.fs, file, FileNode(Bytes(""), w.clock + 1, TRUE)),
                        !.tmp_count = @ + 1, !.clock = @ + 1]]

NoInfo == [filled |-> FALSE, attachments_source |-> <<>>, attachments |-> <<>>]

\* no helper has been called: the instance auto-detects its mode
NoArgs == [force_format |-> "None", files |-> <<>>, text |-> <<>>]

NoValue == [fn |-> "none", out |-> "none"]

\* a normal return of (text, method) -- and email_info, from process_email
Ret(text, method, w) ==
    [kind |-> "ret", text |-> text, method |-> method, exc |-> "", msg |-> <<>>,
     info |-> NoInfo, w |-> w]

\* an exception leaving the operation
Raise(exc, msg, w) ==
    [kind |-> "raise", text |-> <<>>, method |-> <<>>, exc |-> exc, msg |-> msg,
     info |-> NoInfo, w |-> w]

\* one "+"-separated token of a method string, written as the code writes it
Tok(s) == <<s>>

\* the method that is the single token s
M(s) == <<Tok(s)>>

\* "[" + literal + basename + "]", the placeholder of a failed conversion
Placeholder(literal, path) == <<<<"[">>, <<literal>>, Basename(path), <<"]">>>>

\* "[" + literal + str(e) + "]"
ErrorNote(literal, msg) == <<<<"[">>, <<literal>>>> \o msg \o <<<<"]">>>>

-----------------------------------------------------------------------------
(* Exceptions *)

\* except (subprocess.SubprocessError, FileNotFoundError)
SubprocessOrNotFound == {"CalledProcessError", "FileNotFoundError"}

\* except (subprocess.SubprocessError, FileNotFoundError, ValueError)
SubprocessNotFoundOrValue == SubprocessOrNotFound \cup {"ValueError"}

\* str(e) of an OSError raised for a path
OsErrorMsg(exc, path) == <<<<exc>>, Flat(path)>>

-----------------------------------------------------------------------------
(* External programs and libraries: the environment picks the outcome *)

\* exit 0 with text written / exit 0 with no text / binary absent /
\* non-zero exit / the binary cannot be launched
RunOutcomes == {"ok", "empty", "notfound", "nonzero", "oserror"}

\* exit 0 with whitespace-only text: told apart from no text where the code
\* strips its input, in the DOCX chain
PandocDocx == <<"pandoc", "-f", "docx", "-t", "markdown">>

Succeeded(out) == out \in {"ok", "empty", "blank"}

\* a tool given a file it cannot read does not succeed
OutcomesFor(fs, path, argv) ==
    IF OpenError(fs, path) = ""
    THEN RunOutcomes \cup (IF argv = PandocDocx THEN {"blank"} ELSE {})
    ELSE {o \in RunOutcomes : ~Succeeded(o)}

\* the exception subprocess.run(..., check=True) raises for an outcome
RunExc(out) ==
    CASE out = "notfound" -> "FileNotFoundError"
      [] out = "nonzero" -> "CalledProcessError"
      [] out = "oserror" -> "PermissionError"
      [] OTHER -> ""

\* str(e): FileNotFoundError and PermissionError name the binary,
\* CalledProcessError the whole command line
RunMsg(out, argv, path) ==
    IF out = "nonzero"
    THEN <<<<"Command ">>, argv, Flat(path), <<" returned non-zero exit status">>>>
    ELSE <<<<RunExc(out)>>, <<argv[1]>>>>

\* what a converter writes for the contents it was given
ToolText(out, argv, data) ==
    CASE out = "ok" -> <<argv \o <<data.id>>>>
      [] out = "blank" -> <<<<" ">>>>
      [] OTHER -> <<>>

\* a call record: the fixed arguments, the file it was given, the outcome
Logged(w, argv, path, out) ==
    [w EXCEPT !.calls = Append(@, [argv |-> argv, path |-> path, out |-> out])]

\* subprocess.run(argv + [file ...], check=True)
subprocess_run(argv, path, w) ==
    {[out |-> o, w |-> Logged(w, argv, path, o)] : o \in OutcomesFor(w.fs, path, argv)}

\* text.strip() is empty
IsBlank(text) == \A k \in 1..Len(text) : text[k] = <<" ">>

-----------------------------------------------------------------------------
(* DocumentCompiler.is_uvx_available *)

UvxProbeOutcomes == {"ok", "notfound", "nonzero", "oserror"}

Probe(val, exc, msg, w) ==
    [kind |-> IF exc = "" THEN "ret" ELSE "raise", val |-> val, exc |-> exc,
     msg |-> msg, w |-> w]

is_uvx_available(w) ==
    IF w.uvx # "None" THEN {Probe(w.uvx = "True", "", <<>>, w)}
    ELSE {LET w1 == Logged(w, <<"uvx", "--version">>, <<>>, o)
          IN IF o = "ok" THEN Probe(TRUE, "", <<>>, [w1 EXCEPT !.uvx = "True"])
             ELSE IF RunExc(o) \in SubprocessOrNotFound
                  THEN Probe(FALSE, "", <<>>, [w1 EXCEPT !.uvx = "False"])
                  ELSE Probe(FALSE, RunExc(o), RunMsg(o, <<"uvx", "--version">>, <<>>), w1)
          : o \in UvxProbeOutcomes}

-----------------------------------------------------------------------------
(* One converter strategy that writes to a NamedTemporaryFile: create the  *)
(* file, run the tool, read the file back, unlink it.  A failed run leaves *)
(* the function before the unlink.                                         *)

run_to_tempfile(argv, suffix, filepath, w) ==
    LET temp == NamedTemporaryFile(suffix, w)
    IN {IF Succeeded(r.out)
        THEN [out |-> r.out,
              text |-> ToolText(r.out, argv, w.fs[Norm(filepath)].data),
              w |-> [r.w EXCEPT !.fs = Unlink(@, temp.path)]]
        ELSE [out |-> r.out, text |-> <<>>, w |-> r.w]
        : r \in subprocess_run(argv, filepath, temp.w)}

-----------------------------------------------------------------------------
(* DocumentCompiler.convert_pdf_to_text *)

MD == <<".", "m", "d">>
TXT == <<".", "t", "x", "t">>

\* third attempt: pdftotext -layout
pdf_pdftotext(filepath, w) ==
    {IF Succeeded(r.out) THEN Ret(r.text, M("pdftotext"), r.w)
     ELSE IF RunExc(r.out) \in SubprocessOrNotFound
          THEN Ret(Placeholder("Failed to convert PDF file: ", filepath), M("failed"), r.w)
          ELSE Raise(RunExc(r.out), RunMsg(r.out, <<"pdftotext", "-layout">>, filepath), r.w)
     : r \in run_to_tempfile(<<"pdftotext", "-layout">>, TXT, filepath, w)}

\* second attempt: markitdown
pdf_markitdown(filepath, w) ==
    UNION {IF Succeeded(r.out) THEN {Ret(r.text, M("markitdown"), r.w)}
           ELSE IF RunExc(r.out) \in SubprocessOrNotFound
                THEN pdf_pdftotext(filepath, r.w)
                ELSE {Raise(RunExc(r.out), RunMsg(r.out, <<"markitdown">>, filepath), r.w)}
           : r \in run_to_tempfile(<<"markitdown">>, MD, filepath, w)}

\* a chain that goes from a failed uvx attempt straight to pdftotext
pdf_uvx_markitdown_skipping(filepath, w) ==
    UNION {IF Succeeded(r.out) THEN {Ret(r.text, M("markitdown-uvx"), r.w)}
           ELSE IF RunExc(r.out) \in SubprocessOrNotFound
                THEN pdf_pdftotext(filepath, r.w)
                ELSE {Raise(RunExc(r.out), RunMsg(r.out, <<"uvx", "markitdown">>, filepath), r.w)}
           : r \in run_to_tempfile(<<"uvx", "markitdown">>, MD, filepath, w)}

\* first attempt: uvx markitdown
pdf_uvx_markitdown(filepath, w) ==
    UNION {IF Succeeded(r.out) THEN {Ret(r.text, M("markitdown-uvx"), r.w)}
           ELSE IF RunExc(r.out) \in SubprocessOrNotFound
                THEN pdf_markitdown(filepath, r.w)
                ELSE {Raise(RunExc(r.out), RunMsg(r.out, <<"uvx", "markitdown">>, filepath), r.w)}
           : r \in run_to_tempfile(<<"uvx", "markitdown">>, MD, filepath, w)}

convert_pdf_to_text(filepath, w) ==
    UNION {IF p.kind = "raise" THEN {Raise(p.exc, p.msg, p.w)}
           ELSE IF p.val THEN pdf_uvx_markitdown(filepath, p.w)
           ELSE pdf_markitdown(filepath, p.w)
           : p \in is_uvx_available(w)}

-----------------------------------------------------------------------------
(* DocumentCompiler.convert_epub_to_text *)

convert_epub_to_text(filepath, w) ==
    {IF Succeeded(r.out) THEN Ret(r.text, M("ebook-convert"), r.w)
     ELSE IF RunExc(r.out) \in SubprocessOrNotFound
          THEN Ret(Placeholder("Failed to convert EPUB file: ", filepath), M("failed"), r.w)
          ELSE Raise(RunExc(r.out), RunMsg(r.out, <<"ebook-convert">>, filepath), r.w)
     : r \in run_to_tempfile(<<"ebook-convert">>, TXT, filepath, w)}

-----------------------------------------------------------------------------
(* DocumentCompiler.convert_docx_to_text *)

\* docx2txt.process(filepath): text, no text, blank text, or any exception
Docx2txtOutcomes == {"ok", "empty", "blank", "error"}

\* a fallback that accepts whatever docx2txt returns, without the strip test
docx_docx2txt_unchecked(filepath, w) ==
    IF w.docx2txt
    THEN {LET w1 == Logged(w, <<"docx2txt.process">>, filepath, o)
              text == ToolText(o, <<"docx2txt.process">>, w.fs[Norm(filepath)].data)
          IN IF o # "error"
             THEN Ret(text, M("docx2txt"), w1)
             ELSE Ret(Placeholder("Failed to convert DOCX file: ", filepath), M("failed"), w1)
          : o \in IF OpenError(w.fs, filepath) = "" THEN Docx2txtOutcomes ELSE {"error"}}
    ELSE {Ret(Placeholder("Failed to convert DOCX file: ", filepath), M("failed"), w)}

\* the fallback inside the except clause of the pandoc attempt
docx_docx2txt(filepath, w) ==
    IF w.docx2txt
    THEN {LET w1 == Logged(w, <<"docx2txt.process">>, filepath, o)
              text == ToolText(o, <<"docx2txt.process">>, w.fs[Norm(filepath)].data)
          IN IF o # "error" /\ text # <<>> /\ ~IsBlank(text)
             THEN Ret(text, M("docx2txt"), w1)
             ELSE Ret(Placeholder("Failed to convert DOCX file: ", filepath), M("failed"), w1)
          : o \in IF OpenError(w.fs, filepath) = "" THEN Docx2txtOutcomes ELSE {"error"}}
    ELSE {Ret(Placeholder("Failed to convert DOCX file: ", filepath), M("failed"), w)}

convert_docx_to_text(filepath, w) ==
    UNION {IF Succeeded(r.out) THEN {Ret(r.text, M("pandoc"), r.w)}
           ELSE IF RunExc(r.out) \in SubprocessOrNotFound
                THEN docx_docx2txt(filepath, r.w)
                ELSE {Raise(RunExc(r.out), RunMsg(r.out, PandocDocx, filepath), r.w)}
           : r \in run_to_tempfile(PandocDocx, MD, filepath, w)}

-----------------------------------------------------------------------------
(* DocumentCompiler.convert_doc_to_text *)

DOCX == <<".", "d", "o", "c", "x">>

\* soffice --convert-to docx --outdir temp_dir temp_doc:
\* "ok" deposits the .docx, "nooutput" exits 0 and deposits nothing
SofficeOutcomes == {"ok", "nooutput", "notfound", "nonzero", "oserror"}

Soffice == <<"soffice", "--convert-to", "docx", "--outdir">>

soffice_run(temp_doc, output_docx, w) ==
    {LET w1 == Logged(w, Soffice, temp_doc, o)
     IN [out |-> o,
         w |-> IF o = "ok"
               THEN [w1 EXCEPT !.fs = PutFile(@, output_docx,
                                        FileNode(Bytes(w.fs[temp_doc].data.id), w.clock + 1, TRUE)),
                               !.clock = @ + 1]
               ELSE w1]
     : o \in SofficeOutcomes}

\* shutil.copy2(src, dst): contents and modification time
Copy2(fs, src, dst) == PutFile(fs, dst, [fs[Norm(src)] EXCEPT !.readable = TRUE])

\* a bridge that returns the DOCX chain's method as it is
BridgedMethod_bare(method) == method

\* f"soffice+{method}"
BridgedMethod(method) == <<Tok("soffice")>> \o method

convert_doc_to_text(filepath, w) ==
    LET made == Mkdtemp(w)
        temp_dir == made.path
        w1 == [made.w EXCEPT !.temp_dirs = Append(@, temp_dir)]
        filename == Basename(filepath)
        output_docx == Append(temp_dir, SplitStem(filename) \o DOCX)
        temp_doc == Append(temp_dir, filename)
        w2 == [w1 EXCEPT !.fs = Copy2(@, filepath, temp_doc)]
        \* the except clause of the function
        handle(exc, msg, wx) ==
            IF exc \in SubprocessNotFoundOrValue
            THEN Ret(Placeholder("Failed to convert DOC file: ", filepath), M("failed"), wx)
            ELSE Raise(exc, msg, wx)
    IN IF OpenError(w1.fs, filepath) # ""
       THEN {handle(OpenError(w1.fs, filepath),
                    OsErrorMsg(OpenError(w1.fs, filepath), filepath), w1)}
       ELSE IF ~Exists(w2.fs, temp_doc)
       THEN {handle("FileNotFoundError", OsErrorMsg("FileNotFoundError", temp_doc), w2)}
       ELSE IF IsEmptyFile(w2.fs, temp_doc)
       THEN {handle("ValueError", <<<<"File is empty (0 bytes): ">>, Flat(filepath)>>, w2)}
       ELSE UNION
            {IF RunExc(s.out) # ""
             THEN {handle(RunExc(s.out), RunMsg(s.out, Soffice, temp_doc), s.w)}
             ELSE IF ~Exists(s.w.fs, output_docx)
             THEN {handle("FileNotFoundError",
                          OsErrorMsg("FileNotFoundError", output_docx), s.w)}
             ELSE {IF r.kind = "raise" THEN handle(r.exc, r.msg, r.w)
                   ELSE Ret(r.text, BridgedMethod(r.method), r.w)
                   : r \in convert_docx_to_text(output_docx, s.w)}
             : s \in soffice_run(temp_doc, output_docx, w2)}

-----------------------------------------------------------------------------
(* DocumentCompiler.convert_rtf_to_text *)

\* from striprtf.striprtf import rtf_to_text; open; rtf_to_text(...):
\* the module is missing, or the call returns text or no text, or raises
StriprtfOutcomes == {"importerror", "ok", "empty", "error"}

\* third attempt: the striprtf library; every exception ends in the placeholder
rtf_striprtf(filepath, w) ==
    {LET w1 == Logged(w, <<"striprtf.rtf_to_text">>, filepath, o)
     IN IF o \in {"ok", "empty"}
        THEN Ret(ToolText(o, <<"striprtf.rtf_to_text">>, w.fs[Norm(filepath)].data),
                 M("striprtf"), w1)
        ELSE Ret(Placeholder("Failed to convert RTF file: ", filepath), M("failed"), w1)
     : o \in IF OpenError(w.fs, filepath) = "" THEN StriprtfOutcomes
             ELSE {"importerror", "error"}}

\* a chain that gives up after unrtf, without trying striprtf
rtf_unrtf_last(filepath, w) ==
    {IF Succeeded(r.out)
     THEN Ret(ToolText(r.out, <<"unrtf", "--text">>, w.fs[Norm(filepath)].data),
              M("unrtf"), r.w)
     ELSE IF RunExc(r.out) \in SubprocessOrNotFound
          THEN Ret(Placeholder("Failed to convert RTF file: ", filepath), M("failed"), r.w)
          ELSE Raise(RunExc(r.out), RunMsg(r.out, <<"unrtf", "--text">>, filepath), r.w)
     : r \in subprocess_run(<<"unrtf", "--text">>, filepath, w)}

\* second attempt: unrtf --text, read from its standard output
rtf_unrtf(filepath, w) ==
    UNION {IF Succeeded(r.out)
           THEN {Ret(ToolText(r.out, <<"unrtf", "--text">>, w.fs[Norm(filepath)].data),
                     M("unrtf"), r.w)}
           ELSE IF RunExc(r.out) \in SubprocessOrNotFound
                THEN rtf_striprtf(filepath, r.w)
                ELSE {Raise(RunExc(r.out), RunMsg(r.out, <<"unrtf", "--text">>, filepath), r.w)}
           : r \in subprocess_run(<<"unrtf", "--text">>, filepath, w)}

PandocRtf == <<"pandoc", "-f", "rtf", "-t", "markdown">>

\* first attempt: pandoc
convert_rtf_to_text(filepath, w) ==
    UNION {IF Succeeded(r.out) THEN {Ret(r.text, M("pandoc"), r.w)}
           ELSE IF RunExc(r.out) \in SubprocessOrNotFound
                THEN rtf_unrtf(filepath, r.w)
                ELSE {Raise(RunExc(r.out), RunMsg(r.out, PandocRtf, filepath), r.w)}
           : r \in run_to_tempfile(PandocRtf, MD, filepath, w)}

-----------------------------------------------------------------------------
(* DocumentCompiler.convert_txt_to_text *)

\* f.read() with errors='replace': whatever the file holds
RawText(data) == IF data = Bytes("") THEN <<>> ELSE <<<<data.k, data.id>>>>

convert_txt_to_text(filepath, w) ==
    IF OpenError(w.fs, filepath) = ""
    THEN {Ret(RawText(w.fs[Norm(filepath)].data), M("direct_read"), w)}
    ELSE {Ret(Placeholder("Failed to read file: ", filepath), M("failed"), w)}

-----------------------------------------------------------------------------
(* DocumentCompiler.__init__: include_extensions; get_file_language *)

PDF == <<".", "p", "d", "f">>
EPUB == <<".", "e", "p", "u", "b">>
DOC == <<".", "d", "o", "c">>
RTF == <<".", "r", "t", "f">>
ZIP == <<".", "z", "i", "p">>
EML == <<".", "e", "m", "l">>

include_extensions ==
    {PDF, EPUB, DOCX, DOC, RTF, TXT, MD, <<".", "p", "y">>, <<".", "r", "b">>,
     <<".", "j", "s">>, <<".", "h", "t", "m", "l">>, <<".", "c", "s", "s">>,
     <<".", "j", "s", "o", "n">>, <<".", "y", "m", "l">>, <<".", "y", "a", "m", "l">>,
     ZIP, EML}

\* the language label of a path, "" if its extension has none
\* (the rows of the table whose extension the include list admits)
get_file_language(file_path) ==
    LET ext == LowerExt(file_path)
    IN CASE ext = <<".", "p", "y">> -> "python"
         [] ext = <<".", "r", "b">> -> "ruby"
         [] ext = <<".", "j", "s">> -> "javascript"
         [] ext = <<".", "h", "t", "m", "l">> -> "html"
         [] ext = <<".", "c", "s", "s">> -> "css"
         [] ext = <<".", "j", "s", "o", "n">> -> "json"
         [] ext = <<".", "y", "m", "l">> -> "yaml"
         [] ext = <<".", "y", "a", "m", "l">> -> "yaml"
         [] ext = MD -> "markdown"
         [] ext = TXT -> "text"
         [] OTHER -> ""

\* the content as a fenced code block, the opening fence labeled with the
\* language if the path has one
Fenced(file_path, content) ==
    (IF get_file_language(file_path) # ""
     THEN <<<<"fence", get_file_language(file_path)>>>>
     ELSE <<<<"fence">>>>) \o content \o <<<<"fence">>>>

-----------------------------------------------------------------------------
(* Python lists and sets: list.sort, set(...) iteration, "+".join *)

\* a sort that puts the greatest path string first
RECURSIVE SortPaths_descending(_)
SortPaths_descending(S) ==
    IF S = {} THEN <<>>
    ELSE LET m == CHOOSE x \in S : \A y \in S \ {x} : StrLess(Flat(y), Flat(x))
         IN <<m>> \o SortPaths_descending(S \ {m})

\* sorted(paths): ascending by the path string
RECURSIVE SortPaths(_)
SortPaths(S) ==
    IF S = {} THEN <<>>
    ELSE LET m == CHOOSE x \in S : \A y \in S \ {x} : StrLess(Flat(x), Flat(y))
         IN <<m>> \o SortPaths(S \ {m})

RECURSIVE Canon(_)
Canon(S) ==
    IF S = {} THEN <<>>
    ELSE LET x == CHOOSE y \in S : TRUE IN <<x>> \o Canon(S \ {x})

Reverse(s) == [i \in 1..Len(s) |-> s[Len(s) + 1 - i]]

\* the hash seeds an interpreter may start with
HashSeeds == {0, 1}

\* the order in which a set of strings is iterated: fixed by the hash seed
\* and the set, not by insertion order
SetOrder(S, seed) == IF seed = 0 THEN Canon(S) ELSE Reverse(Canon(S))

\* the orders os.listdir may list a set of paths in
ListingsOf(S) ==
    {s \in [1..Cardinality(S) -> S] : \A i, j \in 1..Cardinality(S) : s[i] = s[j] => i = j}

Range(s) == {s[i] : i \in 1..Len(s)}

\* "+".join(methods), as a sequence of tokens; "" is the one empty token
RECURSIVE Concat(_)
Concat(ms) == IF ms = <<>> THEN <<>> ELSE ms[1] \o Concat(Tail(ms))

JoinPlus(ms) == IF ms = <<>> THEN <<<<>>>> ELSE Concat(ms)

-----------------------------------------------------------------------------
(* DocumentCompiler.extract_zip *)

RECURSIVE process_file(_, _)

\* zipfile.ZipFile(filepath) and extractall(temp_dir): the exception it
\* raises, "" if none.  A file with no central directory is a BadZipFile; a
\* damaged member stream raises zlib.error while it is inflated, an encrypted
\* member RuntimeError.
ZipError(fs, filepath) ==
    IF OpenError(fs, filepath) # "" THEN OpenError(fs, filepath)
    ELSE LET data == fs[Norm(filepath)].data
         IN IF data.k # "zip" THEN "BadZipFile"
            ELSE IF data.entries # {} /\ data.flaw = "corrupt" THEN "zlib.error"
            ELSE IF data.entries # {} /\ data.flaw = "encrypted" THEN "RuntimeError"
            ELSE ""

\* str(e) of that exception
ZipErrorMsg(fs, filepath) ==
    LET exc == ZipError(fs, filepath)
    IN CASE exc = "BadZipFile" -> <<<<"File is not a zip file">>>>
         [] exc = "zlib.error" -> <<<<"Error -3 while decompressing data">>>>
         [] exc = "RuntimeError" ->
              <<<<"File ">>,
                Flat((CHOOSE e \in fs[Norm(filepath)].data.entries : TRUE).rel),
                <<" is encrypted, password required for extraction">>>>
         [] OTHER -> OsErrorMsg(exc, filepath)

\* zip_ref.extractall(temp_dir)
ExtractAll(w, entries, temp_dir) ==
    LET files == {Join(temp_dir, e.rel) : e \in entries}
        dirs == UNION {DirsFor(f) : f \in files} \ DOMAIN w.fs
        data(f) == (CHOOSE e \in entries : Join(temp_dir, e.rel) = f).data
    IN [w EXCEPT !.fs = [p \in DOMAIN w.fs \cup dirs \cup files |->
                            IF p \in files THEN FileNode(data(p), w.clock + 1, TRUE)
                            ELSE IF p \in DOMAIN w.fs THEN w.fs[p]
                            ELSE DirNode],
                 !.clock = @ + 1]

\* the loop over file_list from entry i on: every way it can end, as
\* [summary, methods, w]
RECURSIVE zip_entries(_, _, _, _, _, _)

\* a loop that ends at the first entry whose processing raises
zip_entries_aborting(file_list, i, temp_dir, summary, methods, w) ==
    IF i > Len(file_list) THEN {[summary |-> summary, methods |-> methods, w |-> w]}
    ELSE LET file_path == file_list[i]
             full_path == Join(temp_dir, file_path)
             head == summary \o <<<<"### File: ">>, Flat(file_path)>>
         IN IF LowerExt(file_path) \in include_extensions
            THEN UNION
                 {IF r.kind = "ret"
                  THEN zip_entries(file_list, i + 1, temp_dir,
                                   head \o Fenced(file_path, r.text),
                                   Append(methods, r.method), r.w)
                  ELSE {[summary |-> head \o ErrorNote("Error processing file: ", r.msg),
                         methods |-> methods, w |-> r.w]}
                  : r \in process_file(full_path, w)}
            ELSE zip_entries(file_list, i + 1, temp_dir, summary, methods, w)

zip_entries(file_list, i, temp_dir, summary, methods, w) ==
    IF i > Len(file_list) THEN {[summary |-> summary, methods |-> methods, w |-> w]}
    ELSE LET file_path == file_list[i]
             full_path == Join(temp_dir, file_path)
             head == summary \o <<<<"### File: ">>, Flat(file_path)>>
         IN IF LowerExt(file_path) \in include_extensions
            THEN UNION
                 {IF r.kind = "ret"
                  THEN zip_entries(file_list, i + 1, temp_dir,
                                   head \o Fenced(file_path, r.text),
                                   Append(methods, r.method), r.w)
                  ELSE zip_entries(file_list, i + 1, temp_dir,
                                   head \o ErrorNote("Error processing file: ", r.msg),
                                   methods, r.w)
                  : r \in process_file(full_path, w)}
            ELSE zip_entries(file_list, i + 1, temp_dir, summary, methods, w)

\* "- " + file for every file of the list
RECURSIVE Listing(_)
Listing(file_list) ==
    IF file_list = <<>> THEN <<>>
    ELSE <<<<"- ">>, Flat(file_list[1])>> \o Listing(Tail(file_list))

\* the methods joined as the list they were collected in, without set()
ZipMethod_list(extraction_methods, seed) ==
    <<Tok("zip_extract")>> \o JoinPlus(extraction_methods)

\* "zip_extract+" + "+".join(set(extraction_methods))
ZipMethod(extraction_methods, seed) ==
    <<Tok("zip_extract")>> \o JoinPlus(SetOrder(Range(extraction_methods), seed))

extract_zip(filepath, w) ==
    LET made == Mkdtemp(w)
        temp_dir == made.path
        w1 == [made.w EXCEPT !.temp_dirs = Append(@, temp_dir)]
        exc == ZipError(w1.fs, filepath)
    IN IF exc = "BadZipFile"
       THEN {Ret(<<<<"[">>, <<"Error: ">>, Basename(filepath),
                   <<" is not a valid ZIP file">>, <<"]">>>>,
                 M("failed-bad_zip"), w1)}
       ELSE IF exc # ""
       THEN {Ret(ErrorNote("Error processing ZIP file: ", ZipErrorMsg(w1.fs, filepath)),
                 M("failed-exception"), w1)}
       ELSE LET w2 == ExtractAll(w1, w1.fs[Norm(filepath)].data.entries, temp_dir)
                file_list ==
                    SortPaths({SubSeq(p, Len(temp_dir) + 1, Len(p))
                               : p \in FilesBelow(w2.fs, temp_dir)})
                summary == <<<<"# ZIP Archive Contents: ">>, Basename(filepath),
                             <<"## Files in archive:">>>>
                           \o Listing(file_list)
                           \o <<<<"## Extracted file contents:">>>>
            IN {Ret(z.summary, ZipMethod(z.methods, w.hash_seed), z.w)
                : z \in zip_entries(file_list, 1, temp_dir, summary, <<>>, w2)}

-----------------------------------------------------------------------------
(* EmailProcessor *)

AttachmentFolderNames ==
    <<<<"a", "t", "t", "a", "c", "h", "m", "e", "n", "t", "s">>,
      <<"A", "t", "t", "a", "c", "h", "m", "e", "n", "t", "s">>,
      <<"a", "t", "t", "a", "c", "h", "m", "e", "n", "t">>,
      <<"A", "t", "t", "a", "c", "h", "m", "e", "n", "t">>>>

\* the first sibling directory with one of the four names; <<>> is None
auto_detect_attachments(fs, eml_path) ==
    LET email_dir == Dirname(eml_path)
        found == {i \in 1..Len(AttachmentFolderNames) :
                     IsDir(fs, Append(email_dir, AttachmentFolderNames[i]))}
    IN IF found = {} THEN <<>>
       ELSE Append(email_dir,
                   AttachmentFolderNames[CHOOSE i \in found : \A j \in found : i <= j])

\* an attachment record: the name it carries and where it lies
Attachment(filename, path) == [filename |-> filename, path |-> path]

\* the lists _check_attachments_folder may return: the regular files of the
\* folder, in the order os.listdir happens to give
check_attachments_folder(fs, attachments_dir) ==
    IF attachments_dir # <<>> /\ Exists(fs, attachments_dir)
    THEN {[i \in 1..Len(l) |-> Attachment(<<Basename(l[i])>>, l[i])]
          : l \in ListingsOf(FilesIn(fs, attachments_dir))}
    ELSE {<<>>}

\* the parts of the message parse_email reads from a file
PartsOf(data) == IF data.k = "eml" THEN data.parts ELSE <<>>

\* extract_attachments_from_email, from part i on:
\* [exc, msg, attachments, w]; exc is "" unless a write raised
RECURSIVE extract_attachments_from_email(_, _, _, _, _, _)
extract_attachments_from_email(parts, i, eml_path, attachments_dir, attachments, w) ==
    IF i > Len(parts)
    THEN [exc |-> "", msg |-> <<>>, attachments |-> attachments, w |-> w]
    ELSE IF parts[i].disp = "attachment" /\ parts[i].filename # <<>>
    THEN LET dir == IF attachments_dir = <<>>
                    THEN Append(Dirname(eml_path), AttachmentFolderNames[1])
                    ELSE attachments_dir
             filepath == Join(dir, parts[i].filename)
             w1 == [w EXCEPT !.fs = MakeDirs(@, DirsFor(Norm(dir)) \cup {Norm(dir)})]
             w2 == [w1 EXCEPT !.fs = PutFile(@, Norm(filepath),
                                             FileNode(parts[i].data, w.clock + 1, TRUE)),
                              !.clock = @ + 1]
         IN IF IsFile(w.fs, dir)
            THEN [exc |-> "FileExistsError", msg |-> OsErrorMsg("FileExistsError", dir),
                  attachments |-> attachments, w |-> w]
            ELSE IF CreateError(w1.fs, filepath) # ""
            THEN [exc |-> CreateError(w1.fs, filepath),
                  msg |-> OsErrorMsg(CreateError(w1.fs, filepath), filepath),
                  attachments |-> attachments, w |-> w1]
            ELSE extract_attachments_from_email(
                     parts, i + 1, eml_path, dir,
                     Append(attachments, Attachment(parts[i].filename, filepath)), w2)
    ELSE extract_attachments_from_email(parts, i + 1, eml_path, attachments_dir,
                                        attachments, w)

LocalFolder == <<"L", "o", "c", "a", "l", " ", "f", "o", "l", "d", "e", "r">>

ExtractedFromEmail ==
    <<"E", "x", "t", "r", "a", "c", "t", "e", "d", " ", "f", "r", "o", "m", " ",
      "e", "m", "a", "i", "l">>

\* a resolution that extracts the MIME parts as well when the folder has files
process_attachments_mixing(parts, eml_path, attachments_dir, w) ==
    {LET x == extract_attachments_from_email(parts, 1, eml_path, attachments_dir,
                                             folder_files, w)
     IN [exc |-> x.exc, msg |-> x.msg, attachments |-> x.attachments,
         source |-> IF folder_files # <<>> THEN LocalFolder ELSE ExtractedFromEmail,
         w |-> x.w]
     : folder_files \in check_attachments_folder(w.fs, attachments_dir)}

\* process_attachments: [exc, msg, attachments, source, w], one per listing
process_attachments(parts, eml_path, attachments_dir, w) ==
    {IF folder_files # <<>>
     THEN [exc |-> "", msg |-> <<>>, attachments |-> folder_files,
           source |-> LocalFolder, w |-> w]
     ELSE LET x == extract_attachments_from_email(parts, 1, eml_path, attachments_dir,
                                                  <<>>, w)
          IN [exc |-> x.exc, msg |-> x.msg, attachments |-> x.attachments,
              source |-> ExtractedFromEmail, w |-> x.w]
     : folder_files \in check_attachments_folder(w.fs, attachments_dir)}

\* an HTML document that html2text renders as the empty string
VoidHtml == Bytes("void")

\* self.h2t.handle(html_content): the Markdown of an HTML part
H2T(data) == IF data = VoidHtml THEN <<>> ELSE <<<<"html2text", data.id>>>>

PartText(data) == IF data = Bytes("") THEN <<>> ELSE <<<<data.id>>>>

\* a resolution that prefers the plain-text part
get_email_body_plain_first(parts) ==
    LET body(ctype) == {i \in 1..Len(parts) :
                           parts[i].disp # "attachment" /\ parts[i].ctype = ctype}
        last_of(S) == CHOOSE i \in S : \A j \in S : j <= i
        body_plain == IF body("text/plain") = {} THEN <<>>
                      ELSE PartText(parts[last_of(body("text/plain"))].data)
        body_html == IF body("text/html") = {} THEN <<>>
                     ELSE H2T(parts[last_of(body("text/html"))].data)
    IN IF body_plain # <<>> THEN body_plain ELSE body_html

\* get_email_body: the last HTML part's Markdown if it is not empty, else the
\* last plain-text part; attachment parts are skipped
get_email_body(parts) ==
    LET body(ctype) == {i \in 1..Len(parts) :
                           parts[i].disp # "attachment" /\ parts[i].ctype = ctype}
        last_of(S) == CHOOSE i \in S : \A j \in S : j <= i
        body_plain == IF body("text/plain") = {} THEN <<>>
                      ELSE PartText(parts[last_of(body("text/plain"))].data)
        body_html == IF body("text/html") = {} THEN <<>>
                     ELSE H2T(parts[last_of(body("text/html"))].data)
    IN IF body_html # <<>> THEN body_html ELSE body_plain

\* compile_output: the header, the metadata, the body, the attachments section
compile_output(parts, source, attachments) ==
    <<<<"# Email Document">>, <<"- **Attachments Source**: ">>, source,
      <<"## Email Content">>>>
    \o (IF get_email_body(parts) # <<>> THEN get_email_body(parts)
        ELSE <<<<"[No email body content found]">>>>)
    \o (IF attachments # <<>> THEN <<<<"## Attachments (files)">>>>
        ELSE <<<<"## Attachments">>, <<"No attachments found.">>>>)

-----------------------------------------------------------------------------
(* DocumentCompiler.process_email *)

\* the loop over the attachments from the i-th on: [content, w]
RECURSIVE email_attachments(_, _, _, _)

\* a loop that hands every admitted attachment to process_file, .eml included
email_attachments_reentrant(attachments, i, email_content, w) ==
    IF i > Len(attachments) THEN {[content |-> email_content, w |-> w]}
    ELSE LET att_path == attachments[i].path
             ext == LowerExt(att_path)
             head == email_content \o <<<<"### ">>, Flat(attachments[i].filename)>>
         IN IF ext \in include_extensions
            THEN UNION
                 {email_attachments(
                      attachments, i + 1,
                      head \o (IF r.kind = "ret" THEN Fenced(att_path, r.text)
                               ELSE ErrorNote("Error processing attachment: ", r.msg)),
                      r.w)
                  : r \in process_file(att_path, w)}
            ELSE email_attachments(
                     attachments, i + 1,
                     head \o <<<<"[Attachment type ">>, ext,
                                <<" not supported for extraction]">>>>,
                     w)

email_attachments(attachments, i, email_content, w) ==
    IF i > Len(attachments) THEN {[content |-> email_content, w |-> w]}
    ELSE LET att_path == attachments[i].path
             ext == LowerExt(att_path)
             head == email_content \o <<<<"### ">>, Flat(attachments[i].filename)>>
         IN IF ext \in include_extensions /\ ext # EML
            THEN UNION
                 {email_attachments(
                      attachments, i + 1,
                      head \o (IF r.kind = "ret" THEN Fenced(att_path, r.text)
                               ELSE ErrorNote("Error processing attachment: ", r.msg)),
                      r.w)
                  : r \in process_file(att_path, w)}
            ELSE email_attachments(
                     attachments, i + 1,
                     head \o <<<<"[Attachment type ">>, ext,
                                <<" not supported for extraction]">>>>,
                     w)

\* source.lower().replace(' ', '_')
SourceTag(source) ==
    [i \in 1..Len(source) |-> IF source[i] = " " THEN "_" ELSE LowerChar(source[i])]

process_email(filepath, w) ==
    IF OpenError(w.fs, filepath) # ""
    THEN {Ret(Placeholder("Failed to parse email file: ", filepath), M("failed-parse"), w)}
    ELSE LET parts == PartsOf(w.fs[Norm(filepath)].data)
             attachments_dir == auto_detect_attachments(w.fs, filepath)
             \* metadata has no 'attachments_source' yet when email_info is built
             email_info(attachments) ==
                 [filled |-> TRUE, attachments_source |-> <<>>, attachments |-> attachments]
         IN UNION
            {IF a.exc # ""
             THEN {Ret(ErrorNote("Error processing email file: ", a.msg),
                       M("failed-exception"), a.w)}
             ELSE {[Ret(e.content \o <<<<"## Statistics">>>>,
                        <<Tok("email"), SourceTag(a.source)>>, e.w)
                    EXCEPT !.info = email_info(a.attachments)]
                   : e \in email_attachments(a.attachments, 1,
                                             compile_output(parts, a.source, a.attachments),
                                             a.w)}
             : a \in process_attachments(parts, filepath, attachments_dir, w)}

-----------------------------------------------------------------------------
(* DocumentCompiler.process_file *)

\* a dispatcher that compares the extension as it is written
process_file_case_sensitive(file_path, w) ==
    LET ext == SplitExt(Basename(file_path))
    IN CASE ext = PDF -> convert_pdf_to_text(file_path, w)
         [] ext = EPUB -> convert_epub_to_text(file_path, w)
         [] ext = DOCX -> convert_docx_to_text(file_path, w)
         [] ext = DOC -> convert_doc_to_text(file_path, w)
         [] ext = RTF -> convert_rtf_to_text(file_path, w)
         [] ext = ZIP -> extract_zip(file_path, w)
         [] ext = EML -> {[r EXCEPT !.info = NoInfo] : r \in process_email(file_path, w)}
         [] OTHER -> convert_txt_to_text(file_path, w)

process_file(file_path, w) ==
    LET ext == LowerExt(file_path)
    IN CASE ext = PDF -> convert_pdf_to_text(file_path, w)
         [] ext = EPUB -> convert_epub_to_text(file_path, w)
         [] ext = DOCX -> convert_docx_to_text(file_path, w)
         [] ext = DOC -> convert_doc_to_text(file_path, w)
         [] ext = RTF -> convert_rtf_to_text(file_path, w)
         [] ext = ZIP -> extract_zip(file_path, w)
         [] ext = EML -> {[r EXCEPT !.info = NoInfo] : r \in process_email(file_path, w)}
         [] OTHER -> convert_txt_to_text(file_path, w)

-----------------------------------------------------------------------------
(* The directories a run may start from *)

SourceDir == <<<<"i", "n">>>>

In(name) == Append(SourceDir, name)

File(path, data) == [path |-> path, node |-> FileNode(data, 0, TRUE)]

Unreadable(path, data) == [path |-> path, node |-> FileNode(data, 0, FALSE)]

\* a file system holding the given files, the directories above them and
\* the temporary-file root
MkFs(files) ==
    LET paths == {f.path : f \in files}
        dirs == (UNION {DirsFor(q) : q \in paths} \cup {SourceDir, TmpRoot}) \ paths
    IN [q \in paths \cup dirs |->
           IF q \in paths THEN (CHOOSE f \in files : f.path = q).node ELSE DirNode]

Entry(rel, data) == [rel |-> rel, data |-> data]

FlatZip ==
    Zip({Entry(<<<<"a">> \o TXT>>, Bytes("A")),
         Entry(<<<<"c">> \o PDF>>, Bytes("C")),
         Entry(<<<<"d">> \o TXT>>, Bytes("D")),
         Entry(<<<<"x", ".", "b", "i", "n">>>>, Bytes("X"))}, "none")

InnerZip == Zip({Entry(<<<<"b">> \o TXT>>, Bytes("B"))}, "none")

NestedZip ==
    Zip({Entry(<<<<"a">> \o TXT>>, Bytes("A")),
         Entry(<<<<"s", "u", "b">>, <<"i">> \o ZIP>>, InnerZip)}, "none")

DocZip == Zip({Entry(<<<<"d">> \o DOC>>, Bytes("D"))}, "none")

\* a message whose attachment is named "../n.txt"
TraversalMail ==
    Eml(<<Part("", <<>>, "text/plain", Bytes("body")),
          Part("attachment", <<DotDot, <<"n">> \o TXT>>, "application/octet-stream",
               Bytes("evil"))>>)

\* a message with two ordinary attachments
PlainMail ==
    Eml(<<Part("", <<>>, "text/html", Bytes("html")),
          Part("attachment", <<<<"x">> \o TXT>>, "text/plain", Bytes("X")),
          Part("attachment", <<<<"y">> \o PDF>>, "application/pdf", Bytes("Y"))>>)

\* a message whose attachment is named "sub/x.txt"
SubdirMail ==
    Eml(<<Part("attachment", <<<<"s", "u", "b">>, <<"x">> \o TXT>>, "text/plain",
               Bytes("X"))>>)

\* a message with two plain-text parts around an HTML part that renders as
\* nothing, and a plain-text attachment
VoidHtmlMail ==
    Eml(<<Part("", <<>>, "text/plain", Bytes("p1")),
          Part("", <<>>, "text/html", VoidHtml),
          Part("", <<>>, "text/plain", Bytes("p2")),
          Part("attachment", <<<<"k">> \o TXT>>, "text/plain", Bytes("K"))>>)

\* a message with a plain-text and an HTML alternative
AlternativeMail ==
    Eml(<<Part("", <<>>, "text/plain", Bytes("p")),
          Part("", <<>>, "text/html", Bytes("h"))>>)

\* a message that is nothing but an HTML attachment and a forwarded message
BodilessMail ==
    Eml(<<Part("attachment", <<<<"a", ".", "h", "t", "m", "l">>>>, "text/html", Bytes("A")),
          Part("attachment", <<<<"f">> \o EML>>, "application/octet-stream", AlternativeMail)>>)

\* a message whose attachment is an archive that holds a message
ArchiveMail ==
    Eml(<<Part("", <<>>, "text/plain", Bytes("b")),
          Part("attachment", <<<<"z">> \o ZIP>>, "application/zip",
               Zip({Entry(<<<<"i">> \o EML>>, AlternativeMail)}, "none"))>>)

Scenarios ==
    << \* 1: PDF and EPUB
       MkFs({File(In(<<"a">> \o PDF), Bytes("A")),
             File(In(<<"b", ".", "P", "D", "F">>), Bytes("B")),
             File(In(<<"c">> \o EPUB), Bytes("C"))}),
       \* 2: DOCX and RTF
       MkFs({File(In(<<"c">> \o DOCX), Bytes("C")),
             File(In(<<"f">> \o RTF), Bytes("F"))}),
       \* 3: DOC: with content, of 0 bytes, unreadable
       MkFs({File(In(<<"d">> \o DOC), Bytes("D")),
             File(In(<<"e">> \o DOC), Bytes("")),
             Unreadable(In(<<"u">> \o DOC), Bytes("U"))}),
       \* 4: text files: readable, of 0 bytes, unreadable, of an unlisted type
       MkFs({File(In(<<"g">> \o TXT), Bytes("G")),
             File(In(<<"h">> \o MD), Bytes("")),
             Unreadable(In(<<"u">> \o TXT), Bytes("U")),
             File(In(<<"x", ".", "l", "o", "g">>), Bytes("X"))}),
       \* 5: archives that extract
       MkFs({File(In(<<"f">> \o ZIP), FlatZip),
             File(In(<<"n">> \o ZIP), NestedZip),
             File(In(<<"o">> \o ZIP), Zip({}, "none"))}),
       \* 6: archives that do not
       MkFs({File(In(<<"b">> \o ZIP), Bytes("junk")),
             File(In(<<"k">> \o ZIP), Zip(InnerZip.entries, "corrupt")),
             File(In(<<"p">> \o ZIP), Zip(InnerZip.entries, "encrypted")),
             Unreadable(In(<<"u">> \o ZIP), InnerZip)}),
       \* 7: an archive holding a DOC
       MkFs({File(In(<<"d">> \o ZIP), DocZip)}),
       \* 8: a message beside the file its attachment names
       MkFs({File(In(<<"m">> \o EML), TraversalMail),
             File(In(<<"n">> \o TXT), Bytes("N"))}),
       \* 9: messages without an attachments folder
       MkFs({File(In(<<"m">> \o EML), PlainMail),
             Unreadable(In(<<"u">> \o EML), PlainMail)}),
       \* 10: a message beside an attachments folder
       MkFs({File(In(<<"m">> \o EML), PlainMail),
             File(Join(SourceDir, <<AttachmentFolderNames[2], <<"z">> \o TXT>>), Bytes("Z")),
             File(Join(SourceDir, <<AttachmentFolderNames[2], <<"w">> \o RTF>>), Bytes("W"))}),
       \* 11: a message whose attachment names a directory that does not exist
       MkFs({File(In(<<"s">> \o EML), SubdirMail),
             File(In(<<"t">> \o TXT), Bytes("T"))}),
       \* 12: messages beside an attachments folder that holds no regular file
       MkFs({File(In(<<"e">> \o EML), VoidHtmlMail),
             File(In(<<"h">> \o EML), AlternativeMail),
             File(In(<<"n">> \o EML), BodilessMail),
             File(Join(SourceDir, <<AttachmentFolderNames[3], <<"s", "u", "b">>,
                                    <<"r">> \o TXT>>), Bytes("R"))}),
       \* 13: a message with an archive attached
       MkFs({File(In(<<"z">> \o EML), ArchiveMail)})
    >>

\* the files of the source directory when the run starts
SourceFiles == FilesBelow(Scenarios[scenario], SourceDir)

-----------------------------------------------------------------------------
(* The state machine: operations on one DocumentCompiler instance *)

\* the world the next operation starts in
World ==
    [fs |-> Fs, temp_dirs |-> temp_dirs, uvx |-> uvx_available,
     docx2txt |-> DOCX2TXT_AVAILABLE, hash_seed |-> hash_seed,
     tmp_count |-> tmp_count, clock |-> clock, calls |-> <<>>]

Init ==
    /\ scenario \in 1..Len(Scenarios)
    /\ Fs = Scenarios[scenario]
    /\ temp_dirs = <<>>
    /\ uvx_available = "None"
    /\ DOCX2TXT_AVAILABLE \in BOOLEAN
    /\ hash_seed \in HashSeeds
    /\ tmp_count = 0
    /\ clock = 0
    /\ calls = <<>>
    /\ last = [op |-> "none", path |-> <<>>, kind |-> "none", text |-> <<>>,
               method |-> <<>>, exc |-> "", msg |-> <<>>, info |-> NoInfo]
    /\ ops = 0
    /\ given = NoArgs
    /\ value = NoValue

\* operation op on path ended as r
Finish(op, path, r) ==
    /\ Fs' = r.w.fs
    /\ temp_dirs' = r.w.temp_dirs
    /\ uvx_available' = r.w.uvx
    /\ tmp_count' = r.w.tmp_count
    /\ clock' = r.w.clock
    /\ calls' = r.w.calls
    /\ last' = [op |-> op, path |-> path, kind |-> r.kind, text |-> r.text,
                method |-> r.method, exc |-> r.exc, msg |-> r.msg, info |-> r.info]
    /\ ops' = ops + 1
    /\ UNCHANGED <<DOCX2TXT_AVAILABLE, hash_seed, scenario, given, value>>

\* compiler.process_file(path)
ProcessFile ==
    /\ ops < MaxOps
    /\ \E path \in SourceFiles : \E r \in process_file(path, World) :
           Finish("process_file", path, r)

\* compiler.extract_zip(path)
ExtractZip ==
    /\ ops < MaxOps
    /\ \E path \in {q \in SourceFiles : LowerExt(q) = ZIP} :
           \E r \in extract_zip(path, World) : Finish("extract_zip", path, r)

\* compiler.process_email(path)
ProcessEmail ==
    /\ ops < MaxOps
    /\ \E path \in {q \in SourceFiles : LowerExt(q) = EML} :
           \E r \in process_email(path, World) : Finish("process_email", path, r)

Next == ProcessFile \/ ExtractZip \/ ProcessEmail

Spec == Init /\ [][Next]_vars

-----------------------------------------------------------------------------
(* The helpers of compile: detect_processing_mode and estimate_tokens *)

\* the characters str.strip and str.split take for whitespace
Whitespace == {" ", "\n", "\t"}

\* str.endswith
EndsWith(s, suffix) ==
    /\ Len(s) >= Len(suffix)
    /\ SubSeq(s, Len(s) - Len(suffix) + 1, Len(s)) = suffix

\* a value Python's "if" takes for false: None or the empty string
Falsy(v) == v \in {"None", ""}

\* detect_processing_mode(files) on an instance whose force_format is force
detect_processing_mode_case_sensitive(force, files) ==
    IF ~Falsy(force) THEN force
    ELSE IF Len(files) = 1 /\ EndsWith(files[1], EML) THEN "single_email"
    ELSE "standard"

detect_processing_mode(force, files) ==
    IF ~Falsy(force) THEN force
    ELSE IF Len(files) = 1 /\ EndsWith(Lower(files[1]), EML) THEN "single_email"
    ELSE "standard"

\* str.lstrip, str.rstrip and str.strip
RECURSIVE LStrip(_)
LStrip(s) == IF s # <<>> /\ s[1] \in Whitespace THEN LStrip(Tail(s)) ELSE s

RECURSIVE RStrip(_)
RStrip(s) ==
    IF s # <<>> /\ s[Len(s)] \in Whitespace THEN RStrip(SubSeq(s, 1, Len(s) - 1)) ELSE s

Strip(s) == RStrip(LStrip(s))

\* str.split(): the runs of characters between whitespace, in the order they
\* start
Split(s) ==
    LET starts == {i \in 1..Len(s) :
                      s[i] \notin Whitespace /\ (i = 1 \/ s[i - 1] \in Whitespace)}
        ends == {j \in 1..Len(s) :
                    s[j] \notin Whitespace /\ (j = Len(s) \/ s[j + 1] \in Whitespace)}
        nth(S, n) == CHOOSE i \in S : Cardinality({j \in S : j < i}) = n - 1
    IN [n \in 1..Cardinality(starts) |-> SubSeq(s, nth(starts, n), nth(ends, n))]

\* re.search(r'[.!?]$', s): "$" stands at the end of s, and before a newline
\* that ends s
EndsSentence(s) ==
    \/ s # <<>> /\ s[Len(s)] \in {".", "!", "?"}
    \/ Len(s) >= 2 /\ s[Len(s)] = "\n" /\ s[Len(s) - 1] \in {".", "!", "?"}

\* an estimate that leaves out the increment for final punctuation
estimate_tokens_words_only(text) ==
    IF Strip(text) = <<>> THEN 0 ELSE Len(Split(Strip(text)))

\* estimate_tokens(text)
estimate_tokens(text) ==
    IF Strip(text) = <<>> THEN 0
    ELSE LET tokens == Split(Strip(text))
             word_count == Len(tokens)
         IN IF EndsSentence(Strip(text)) THEN word_count + 1 ELSE word_count

\* the sequences over S of at most n elements
SeqsUpTo(S, n) == UNION {[1..k -> S] : k \in 0..n}

\* force_format as the constructor may be given it
Formats == {"None", "", "standard", "single_email"}

\* file paths as collect_files returns them
FilePaths ==
    {Flat(In(<<"m">> \o EML)), Flat(In(<<"M", ".", "E", "m", "L">>)),
     Flat(In(<<"a">> \o TXT)), Flat(In(EML)), Flat(In(<<"e", "m", "l">>))}

TextChars == {"a", ".", "!", "?", " ", "\n"}

\* the texts of the documentation of estimate_tokens
Examples ==
    {<<"H", "e", "l", "l", "o", " ", "w", "o", "r", "l", "d">>,
     <<"H", "e", "l", "l", "o", ",", " ", "w", "o", "r", "l", "d", "!">>,
     <<"T", "h", "i", "s", " ", "i", "s", " ", "a", " ", "t", "e", "s", "t", ".", " ", "W", "i", "t", "h", " ", "t", "w", "o", " ", "s", "e", "n", "t", "e", "n", "c", "e", "s", ".">>}

Texts == SeqsUpTo(TextChars, MaxText) \cup Examples

\* an instance constructed with a force_format, and the arguments of a call
InitHelpers ==
    /\ scenario = 1
    /\ Fs = Scenarios[scenario]
    /\ temp_dirs = <<>>
    /\ uvx_available = "None"
    /\ DOCX2TXT_AVAILABLE = FALSE
    /\ hash_seed = 0
    /\ tmp_count = 0
    /\ clock = 0
    /\ calls = <<>>
    /\ last = [op |-> "none", path |-> <<>>, kind |-> "none", text |-> <<>>,
               method |-> <<>>, exc |-> "", msg |-> <<>>, info |-> NoInfo]
    /\ ops = 0
    /\ given \in [force_format : Formats, files : SeqsUpTo(FilePaths, MaxFiles),
                   text : {<<>>}]
              \cup [force_format : {"None"}, files : {<<>>}, text : Texts]
    /\ value = NoValue

Returned(fn, out) ==
    /\ value' = [fn |-> fn, out |-> out]
    /\ UNCHANGED <<Fs, temp_dirs, uvx_available, DOCX2TXT_AVAILABLE, hash_seed,
                   tmp_count, clock, scenario, calls, last, ops, given>>

\* compiler.detect_processing_mode(files)
DetectProcessingMode ==
    Returned("detect_processing_mode",
             detect_processing_mode(given.force_format, given.files))

\* compiler.estimate_tokens(text)
EstimateTokens == Returned("estimate_tokens", estimate_tokens(given.text))

NextHelpers == DetectProcessingMode \/ EstimateTokens

Helpers == InitHelpers /\ [][NextHelpers]_vars

-----------------------------------------------------------------------------
(* The teardown of compile: the finally clause *)

\* path lies in the tree rooted at dir
Within(path, dir) == Len(path) >= Len(dir) /\ SubSeq(path, 1, Len(dir)) = dir

\* shutil.rmtree(dir)
rmtree(fs, dir) == [q \in {x \in DOMAIN fs : ~Within(x, dir)} |-> fs[q]]

\* shutil.rmtree(temp_dir) removes the tree or raises
RmtreeOutcomes == {"ok", "oserror"}

\* a loop without the try: the first error ends it
RECURSIVE RemoveAll_unguarded(_, _, _)
RemoveAll_unguarded(fs, dirs, log) ==
    IF dirs = <<>> THEN {[fs |-> fs, log |-> log]}
    ELSE UNION
         {LET seen == Append(log, [argv |-> <<"shutil.rmtree">>, path |-> Head(dirs),
                                   out |-> o])
          IN IF o = "ok" THEN RemoveAll_unguarded(rmtree(fs, Head(dirs)), Tail(dirs), seen)
             ELSE {[fs |-> fs, log |-> seen]}
          : o \in RmtreeOutcomes}

\* for temp_dir in self.temp_dirs: try shutil.rmtree(temp_dir), except
\* Exception: pass.  Every way the loop can end, as [fs, log]
RECURSIVE RemoveAll(_, _, _)
RemoveAll(fs, dirs, log) ==
    IF dirs = <<>> THEN {[fs |-> fs, log |-> log]}
    ELSE UNION
         {RemoveAll(IF o = "ok" THEN rmtree(fs, Head(dirs)) ELSE fs,
                    Tail(dirs),
                    Append(log, [argv |-> <<"shutil.rmtree">>, path |-> Head(dirs),
                                 out |-> o]))
          : o \in RmtreeOutcomes}

\* the run ends: compile leaves through its finally clause
Cleanup ==
    /\ last.op # "cleanup"
    /\ \E r \in RemoveAll(Fs, temp_dirs, <<>>) :
           /\ Fs' = r.fs
           /\ calls' = r.log
    /\ last' = [op |-> "cleanup", path |-> <<>>, kind |-> "ret", text |-> <<>>,
                method |-> <<>>, exc |-> "", msg |-> <<>>, info |-> NoInfo]
    /\ UNCHANGED <<temp_dirs, uvx_available, DOCX2TXT_AVAILABLE, hash_seed, tmp_count,
                   clock, scenario, ops, given, value>>

\* the operations of a run, until its teardown
Convert == last.op # "cleanup" /\ Next

NextRun == Convert \/ Cleanup

\* a run of compile on one instance: conversions, then the teardown
Run == Init /\ [][NextRun]_vars

-----------------------------------------------------------------------------
(* DocumentCompiler.compile, with recursive off and no exclusion pattern.   *)
(* len(content) and estimate_tokens(content) are taken on the text as the   *)
(* sequence of its strings.                                                  *)

\* collect_files(): the regular files of the source directory the include
\* list admits, sorted
collect_files(fs) ==
    SortPaths({p \in FilesIn(fs, SourceDir) : LowerExt(p) \in include_extensions})

\* len(content)
CharCount(content) == Len(Concat(content))

\* one record of file_stats
FileStat(file_path, r) ==
    [path |-> Basename(file_path), chars |-> CharCount(r.text),
     tokens |-> estimate_tokens(Concat(r.text)), conversion_method |-> r.method]

\* the state of a compile under way: exc is "" unless an exception has left
\* the with statement
Compiling(exc, msg, out_file, file_stats, total_chars, total_tokens, info, w) ==
    [exc |-> exc, msg |-> msg, out_file |-> out_file, file_stats |-> file_stats,
     total_chars |-> total_chars, total_tokens |-> total_tokens, info |-> info, w |-> w]

\* the loop over filtered_files from file i on
RECURSIVE compile_files(_, _, _)
compile_files(files, i, c) ==
    IF i > Len(files) THEN {c}
    ELSE UNION
         {IF r.kind = "raise"
          THEN {Compiling(r.exc, r.msg, c.out_file, c.file_stats, c.total_chars,
                          c.total_tokens, c.info, r.w)}
          ELSE compile_files(
                   files, i + 1,
                   Compiling("", <<>>,
                             c.out_file \o <<<<"## File: ">>, Basename(files[i]),
                                              <<" (converted with ">>, Concat(r.method)>>
                                        \o r.text,
                             Append(c.file_stats, FileStat(files[i], r)),
                             c.total_chars + CharCount(r.text),
                             c.total_tokens + estimate_tokens(Concat(r.text)),
                             c.info, r.w))
          : r \in process_file(files[i], c.w)}

\* format_email_single(out_file, email_info, content)
format_email_single(email_info, content) ==
    <<<<"# Email Analysis Report">>, <<"## Email Content">>>> \o content
    \o <<<<"## Processing Notes">>>>
    \o (IF email_info.attachments_source # <<>>
        THEN <<<<"- Attachments source: ">>, email_info.attachments_source>>
        ELSE <<>>)
    \o <<<<"## Statistics">>>>

\* the single-email branch of compile
compile_single_email(file_path, w) ==
    {Compiling("", <<>>, format_email_single(r.info, r.text), <<>>,
               CharCount(r.text), estimate_tokens(Concat(r.text)), r.info, r.w)
     : r \in process_email(file_path, w)}

\* the index of the first record with the most chars
FirstLargest(stats) ==
    CHOOSE i \in 1..Len(stats) :
        /\ \A j \in 1..Len(stats) : stats[j].chars <= stats[i].chars
        /\ \A j \in 1..(i - 1) : stats[j].chars < stats[i].chars

\* file_stats.sort(key=lambda x: x['chars'], reverse=True): stable
RECURSIVE SortByChars(_)
SortByChars(stats) ==
    IF stats = <<>> THEN <<>>
    ELSE LET i == FirstLargest(stats)
         IN <<stats[i]>>
            \o SortByChars(SubSeq(stats, 1, i - 1) \o SubSeq(stats, i + 1, Len(stats)))

\* what compile leaves: returned is "True", "False" or "raise"
Compiled(returned, mode, c, total_files, fs, log) ==
    [returned |-> returned, mode |-> mode, exc |-> c.exc, msg |-> c.msg,
     out_file |-> c.out_file, file_stats |-> c.file_stats,
     total_chars |-> c.total_chars, total_tokens |-> c.total_tokens,
     total_files |-> total_files, info |-> c.info,
     w |-> [c.w EXCEPT !.fs = fs, !.calls = log]]

\* compile() on a fresh instance whose force_format is force
compile(force, w) ==
    LET filtered_files == collect_files(w.fs)
        fresh == Compiling("", <<>>, <<>>, <<>>, 0, 0, NoInfo, w)
        processing_mode ==
            detect_processing_mode(
                force, [i \in 1..Len(filtered_files) |-> Flat(filtered_files[i])])
        body == IF processing_mode = "single_email"
                THEN compile_single_email(filtered_files[1], w)
                ELSE {[c EXCEPT !.file_stats = IF c.exc = "" THEN SortByChars(@) ELSE @]
                      : c \in compile_files(filtered_files, 1, fresh)}
    IN IF filtered_files = <<>>
       THEN {Compiled("False", "none", fresh, 0, w.fs, <<>>)}
       ELSE UNION
            {{Compiled(IF c.exc = "" THEN "True" ELSE "raise", processing_mode, c,
                       Len(filtered_files), t.fs, c.w.calls \o t.log)
              : t \in RemoveAll(c.w.fs, c.w.temp_dirs, <<>>)}
             : c \in body}

\* the force_format the command line can give: --standard-format or nothing
CommandLineFormats == {"None", "standard"}

\* a fresh instance on a source directory
InitBatch ==
    /\ scenario \in 1..Len(Scenarios)
    /\ Fs = Scenarios[scenario]
    /\ temp_dirs = <<>>
    /\ uvx_available = "None"
    /\ DOCX2TXT_AVAILABLE \in BOOLEAN
    /\ hash_seed \in HashSeeds
    /\ tmp_count = 0
    /\ clock = 0
    /\ calls = <<>>
    /\ last = [op |-> "none", path |-> <<>>, kind |-> "none", text |-> <<>>,
               method |-> <<>>, exc |-> "", msg |-> <<>>, info |-> NoInfo]
    /\ ops = 0
    /\ given \in [force_format : CommandLineFormats, files : {<<>>}, text : {<<>>}]
    /\ value = NoValue

\* compiler.compile()
Compile ==
    /\ last.op = "none"
    /\ \E r \in compile(given.force_format, World) :
           /\ Fs' = r.w.fs
           /\ temp_dirs' = r.w.temp_dirs
           /\ uvx_available' = r.w.uvx
           /\ tmp_count' = r.w.tmp_count
           /\ clock' = r.w.clock
           /\ calls' = r.w.calls
           /\ last' = [op |-> "compile", path |-> SourceDir,
                       kind |-> IF r.returned = "raise" THEN "raise" ELSE "ret",
                       text |-> r.out_file, method |-> <<>>, exc |-> r.exc, msg |-> r.msg,
                       info |-> r.info]
           /\ value' = [fn |-> "compile",
                        out |-> [returned |-> r.returned, mode |-> r.mode,
                                 file_stats |-> r.file_stats,
                                 total_chars |-> r.total_chars,
                                 total_tokens |-> r.total_tokens,
                                 total_files |-> r.total_files]]
    /\ UNCHANGED <<DOCX2TXT_AVAILABLE, hash_seed, scenario, ops, given>>

NextBatch == Compile

\* one run of the command line: a fresh instance, then compile
Batch == InitBatch /\ [][NextBatch]_vars

-----------------------------------------------------------------------------
(* What the properties below read off a state *)

\* the operation that ran last was op, on a path with extension ext
Ran(op, ext) == last.op = op /\ LowerExt(last.path) = ext

\* the file the last operation was given, as the run found it
Given == Scenarios[scenario][last.path]

UvxProbe == <<"uvx", "--version">>

NotProbe(c) == c.argv # UvxProbe

\* the conversion attempts of the last operation, in the order made
Attempts == SelectSeq(calls, NotProbe)

\* the attempt ended as "binary not found" or "non-zero exit"
Recoverable(c) == c.out \in {"notfound", "nonzero"}

\* the attempt did not produce a usable result
Failed(c) ==
    CASE c.argv = <<"docx2txt.process">> -> c.out # "ok"
      [] c.argv = <<"striprtf.rtf_to_text">> -> c.out \in {"importerror", "error"}
      [] OTHER -> ~Succeeded(c.out)

\* how often a token occurs in a method
Count(tok, method) == Cardinality({i \in 1..Len(method) : method[i] = tok})

\* a text in square brackets
Bracketed(text) == Len(text) >= 3 /\ text[1] = <<"[">> /\ text[Len(text)] = <<"]">>

-----------------------------------------------------------------------------
(* C1 *)

\* C1: for every input path and every outcome of the external tools and file
\* operations, a permission error included, process_file does not raise: it
\* returns a (text, method) pair whose method is a non-empty string.
C1_ProcessFileNeverRaises ==
    last.op = "process_file" =>
        last.kind = "ret" /\ last.method # <<>> /\ last.method # <<<<>>>>

-----------------------------------------------------------------------------
(* C2 *)

\* C2: source preservation.  After every conversion operation each file of
\* the input set still exists with the content and the modification time it
\* had when the run started.
C2_SourcePreserved ==
    \A p \in SourceFiles :
        /\ p \in DOMAIN Fs
        /\ Fs[p].data = Scenarios[scenario][p].data
        /\ Fs[p].mtime = Scenarios[scenario][p].mtime

-----------------------------------------------------------------------------
(* C3 *)

\* the strategies of the PDF chain, in the order of the code, for an
\* instance whose uvx probe is true and for one whose probe is not
PdfOrder ==
    IF uvx_available = "True"
    THEN <<<<"uvx", "markitdown">>, <<"markitdown">>, <<"pdftotext", "-layout">>>>
    ELSE <<<<"markitdown">>, <<"pdftotext", "-layout">>>>

\* the method the PDF chain reports for a strategy
PdfMethodOf(argv) ==
    CASE argv = <<"uvx", "markitdown">> -> M("markitdown-uvx")
      [] argv = <<"markitdown">> -> M("markitdown")
      [] OTHER -> M("pdftotext")

\* C3: the PDF chain makes its attempts in the order uvx markitdown (only on
\* an instance whose uvx probe is true), markitdown, pdftotext, all on the
\* file it was given; every attempt but the last one made ended as "binary
\* not found" or "non-zero exit", so nothing runs after a success; a result
\* whose last attempt succeeded carries that strategy's output and its method
\* 'markitdown-uvx', 'markitdown' or 'pdftotext'; a result whose last attempt
\* failed was reached only after the whole chain, with method 'failed'.
C3_PdfChainInOrder ==
    Ran("process_file", PDF) =>
        LET n == Len(Attempts)
        IN /\ n <= Len(PdfOrder)
           /\ \A i \in 1..n : Attempts[i].argv = PdfOrder[i] /\ Attempts[i].path = last.path
           /\ \A i \in 1..(n - 1) : Recoverable(Attempts[i])
           /\ last.kind = "ret" =>
                  /\ n >= 1
                  /\ IF Succeeded(Attempts[n].out)
                     THEN /\ last.method = PdfMethodOf(Attempts[n].argv)
                          /\ last.text = ToolText(Attempts[n].out, Attempts[n].argv, Given.data)
                     ELSE /\ n = Len(PdfOrder)
                          /\ last.method = M("failed")

\* pdftotext converted the file after uvx markitdown and markitdown had failed
C3_Witness ==
    /\ Ran("process_file", PDF)
    /\ Len(Attempts) = 3
    /\ Attempts[1].argv = <<"uvx", "markitdown">> /\ Recoverable(Attempts[1])
    /\ Attempts[2].argv = <<"markitdown">> /\ Recoverable(Attempts[2])
    /\ Attempts[3].out = "ok"
    /\ last.method = M("pdftotext")

-----------------------------------------------------------------------------
(* C4 *)

\* C4: the DOCX chain runs pandoc first, on the file it was given.  Output of
\* pandoc is the result, with method 'pandoc', also when it is empty or only
\* whitespace, and then nothing else runs.  docx2txt runs only after pandoc
\* ended as "binary not found" or "non-zero exit" and only if the library is
\* available; its output is the result, with method 'docx2txt', only if it is
\* not empty once stripped.  Every other result after a failed pandoc is the
\* placeholder with method 'failed'.
C4_DocxChain ==
    Ran("process_file", DOCX) =>
        LET n == Len(calls)
        IN /\ n \in {1, 2}
           /\ calls[1].argv = PandocDocx /\ calls[1].path = last.path
           /\ Succeeded(calls[1].out) =>
                  /\ n = 1
                  /\ last.kind = "ret"
                  /\ last.method = M("pandoc")
                  /\ last.text = ToolText(calls[1].out, PandocDocx, Given.data)
           /\ n = 2 =>
                  /\ calls[2].argv = <<"docx2txt.process">> /\ calls[2].path = last.path
                  /\ DOCX2TXT_AVAILABLE
                  /\ Recoverable(calls[1])
           /\ Recoverable(calls[1]) =>
                  /\ last.kind = "ret"
                  /\ DOCX2TXT_AVAILABLE => n = 2
                  /\ IF n = 2 /\ calls[2].out = "ok"
                     THEN /\ last.method = M("docx2txt")
                          /\ last.text # <<>> /\ ~IsBlank(last.text)
                     ELSE /\ last.method = M("failed")
                          /\ last.text = Placeholder("Failed to convert DOCX file: ", last.path)

\* pandoc was absent, docx2txt returned only whitespace, and the result is
\* the placeholder
C4_Witness ==
    /\ Ran("process_file", DOCX)
    /\ Len(calls) = 2
    /\ calls[1].out = "notfound"
    /\ calls[2].out = "blank"
    /\ last.method = M("failed")

-----------------------------------------------------------------------------
(* C5 *)

\* the DOCX chain ran during the last operation
DocxChainEntered ==
    \E i \in 1..Len(calls) : calls[i].argv \in {PandocDocx, <<"docx2txt.process">>}

\* the .docx soffice is asked to leave beside the copy of the given file
Bridged(path) == SplitStem(Basename(path)) \o DOCX

\* C5: the DOC chain calls soffice first and enters the DOCX chain only after
\* soffice succeeded and left the .docx of the same base name, on that file;
\* what it then returns has the method 'soffice+' followed by the method of
\* the DOCX chain.  If the source has 0 bytes, or soffice is absent, exits
\* non-zero or leaves no such file, the DOCX chain is not entered and the
\* result is ('[Failed to convert DOC file: <basename>]', 'failed').
C5_DocChain ==
    Ran("process_file", DOC) =>
        /\ DocxChainEntered =>
               /\ calls[1].argv = Soffice /\ calls[1].out = "ok"
               /\ Basename(calls[1].path) = Basename(last.path)
               /\ calls[2].argv = PandocDocx
               /\ Basename(calls[2].path) = Bridged(last.path)
               /\ Dirname(calls[2].path) = Dirname(calls[1].path)
               /\ last.kind = "ret" =>
                      /\ Len(last.method) = 2
                      /\ last.method[1] = Tok("soffice")
                      /\ Tail(last.method) =
                             IF Succeeded(calls[2].out) THEN M("pandoc")
                             ELSE IF Len(calls) = 3 /\ calls[3].out = "ok" THEN M("docx2txt")
                             ELSE M("failed")
        /\ (Len(calls) >= 1 /\ calls[1].argv = Soffice /\ calls[1].out = "ok")
               => DocxChainEntered
        /\ (\/ (Given.readable /\ Given.data = Bytes(""))
            \/ (Len(calls) >= 1 /\ calls[1].out \in {"notfound", "nonzero", "nooutput"})) =>
               /\ ~DocxChainEntered
               /\ last.kind = "ret"
               /\ last.method = M("failed")
               /\ last.text = Placeholder("Failed to convert DOC file: ", last.path)

\* soffice bridged the file, pandoc failed on the bridged file and docx2txt
\* converted it
C5_Witness ==
    /\ Ran("process_file", DOC)
    /\ Len(calls) = 3
    /\ calls[1].out = "ok"
    /\ Recoverable(calls[2])
    /\ calls[3].out = "ok"
    /\ last.method = <<Tok("soffice"), Tok("docx2txt")>>

-----------------------------------------------------------------------------
(* C6 *)

\* the extensions process_file hands to a fallback chain of external tools
ToolExts == {PDF, EPUB, DOCX, DOC, RTF}

\* every strategy the last operation attempted failed: each external attempt
\* other than a successful soffice bridge failed, and a direct read could not
\* open the file
EveryStrategyFailed ==
    /\ \A i \in 1..Len(Attempts) :
           \/ Attempts[i].argv = Soffice /\ Attempts[i].out = "ok"
           \/ Failed(Attempts[i])
    /\ LowerExt(last.path) \notin ToolExts => ~Given.readable

\* C6: for the PDF, EPUB, DOCX, DOC, RTF and direct-read chains, a returned
\* result for which every attempted strategy failed (for DOC also when the
\* soffice bridge succeeded and the DOCX chain it enters failed) has the
\* method 'failed', exactly, and a bracketed text holding the base name of
\* the file given to the chain.
C6_ExhaustedChainIsFailed ==
    (/\ last.op = "process_file"
     /\ LowerExt(last.path) \notin {ZIP, EML}
     /\ last.kind = "ret"
     /\ EveryStrategyFailed) =>
        /\ last.method = M("failed")
        /\ Bracketed(last.text)
        /\ Contains(last.text, Basename(last.path))

-----------------------------------------------------------------------------
(* C7 *)

\* the methods that start with 'failed'
FailedMethods ==
    {M("failed"), M("failed-bad_zip"), M("failed-exception"), M("failed-parse")}

\* C7: every result returned by process_file, extract_zip or process_email
\* whose method starts with 'failed' has a text that is not empty, stands in
\* square brackets and contains the base name of the file the operation was
\* given.
C7_FailedTextNamesTheFile ==
    (/\ last.op \in {"process_file", "extract_zip", "process_email"}
     /\ last.kind = "ret"
     /\ last.method \in FailedMethods) =>
        /\ last.text # <<>>
        /\ Bracketed(last.text)
        /\ Contains(last.text, Basename(last.path))

-----------------------------------------------------------------------------
(* C8 *)

RtfOrder == <<PandocRtf, <<"unrtf", "--text">>, <<"striprtf.rtf_to_text">>>>

\* the method the RTF chain reports for a strategy
RtfMethodOf(argv) ==
    CASE argv = PandocRtf -> M("pandoc")
      [] argv = <<"unrtf", "--text">> -> M("unrtf")
      [] OTHER -> M("striprtf")

\* C8: the RTF chain makes its attempts in the order pandoc, unrtf, striprtf,
\* on the file it was given; every attempt but the last one made ended as
\* "binary not found" or "non-zero exit", so nothing runs after a success; a
\* result whose last attempt succeeded carries that strategy's method
\* 'pandoc', 'unrtf' or 'striprtf'; a missing striprtf module and an
\* exception raised by it are failures of the third strategy, and a result
\* whose last attempt failed was reached only after all three, and is
\* ('[Failed to convert RTF file: <basename>]', 'failed').
C8_RtfChainInOrder ==
    Ran("process_file", RTF) =>
        LET n == Len(calls)
        IN /\ n \in 1..3
           /\ \A i \in 1..n : calls[i].argv = RtfOrder[i] /\ calls[i].path = last.path
           /\ \A i \in 1..(n - 1) : Recoverable(calls[i])
           /\ n = 3 => last.kind = "ret"
           /\ last.kind = "ret" =>
                  IF ~Failed(calls[n])
                  THEN /\ last.method = RtfMethodOf(calls[n].argv)
                       /\ last.text = ToolText(calls[n].out, calls[n].argv, Given.data)
                  ELSE /\ n = 3
                       /\ last.method = M("failed")
                       /\ last.text = Placeholder("Failed to convert RTF file: ", last.path)

\* pandoc and unrtf failed, the striprtf module is missing, and the result is
\* the placeholder
C8_Witness ==
    /\ Ran("process_file", RTF)
    /\ Len(calls) = 3
    /\ calls[3].out = "importerror"
    /\ last.method = M("failed")
    /\ last.text = Placeholder("Failed to convert RTF file: ", last.path)

-----------------------------------------------------------------------------
(* C9 *)

\* the contents are a well-formed ZIP archive
ValidZip(data) == data.k = "zip" /\ data.flaw # "corrupt"

\* C9: extract_zip on an existing file that is not a valid ZIP archive
\* returns the method 'failed-bad_zip' with a text saying so, and it returns
\* 'failed-exception' only for an exception other than a malformed archive.
C9_InvalidArchiveIsBadZip ==
    (last.op = "extract_zip" /\ last.kind = "ret") =>
        /\ ~ValidZip(Given.data) =>
               /\ last.method = M("failed-bad_zip")
               /\ \E i \in 1..Len(last.text) : last.text[i] = <<" is not a valid ZIP file">>
        /\ last.method = M("failed-exception") => ValidZip(Given.data)

-----------------------------------------------------------------------------
(* C10 *)

\* the extensions process_file reads directly
DirectExts == include_extensions \ (ToolExts \cup {ZIP, EML})

\* an entry of the archive itself is read directly
DirectEntry(entries) == \E e \in entries : LowerExt(e.rel) \in DirectExts

\* the entries that are archives themselves
ArchiveEntries(entries) == {e \in entries : LowerExt(e.rel) = ZIP /\ e.data.k = "zip"}

\* an entry at some nesting level is read directly
RECURSIVE DirectAnywhere(_)
DirectAnywhere(entries) ==
    \/ DirectEntry(entries)
    \/ \E e \in ArchiveEntries(entries) : DirectAnywhere(e.data.entries)

\* the archives nested in an archive, at every level
RECURSIVE Nested(_)
Nested(entries) ==
    ArchiveEntries(entries)
    \cup UNION {Nested(e.data.entries) : e \in ArchiveEntries(entries)}

\* the last operation expanded an archive
Expanded ==
    /\ last.op \in {"process_file", "extract_zip"}
    /\ LowerExt(last.path) = ZIP
    /\ last.kind = "ret"
    /\ last.method \notin FailedMethods

\* C10, as claimed: the method of an archive that extracts begins with
\* 'zip_extract+' and contains 'direct_read' exactly once whenever an entry
\* at any nesting level was read directly.
C10_DirectReadOnceAtAnyLevel ==
    Expanded =>
        /\ Len(last.method) >= 2 /\ last.method[1] = Tok("zip_extract")
        /\ DirectAnywhere(Given.data.entries) =>
               Count(Tok("direct_read"), last.method) = 1

\* C10, as the code has it: the method of an archive that extracts begins
\* with 'zip_extract+'.  The methods of its own entries are deduplicated as
\* whole strings: if no entry is itself an archive, 'direct_read' occurs
\* exactly once when an entry was read directly and not at all otherwise,
\* however many entries were read directly.  The method of a nested archive
\* is one element of its own, so 'direct_read' occurs at least once when an
\* entry at any level was read directly and at most once more per nested
\* archive.
C10_DirectReadOncePerArchive ==
    Expanded =>
        LET entries == Given.data.entries
            direct == Count(Tok("direct_read"), last.method)
        IN /\ Len(last.method) >= 2 /\ last.method[1] = Tok("zip_extract")
           /\ ArchiveEntries(entries) = {} =>
                  direct = IF DirectEntry(entries) THEN 1 ELSE 0
           /\ DirectAnywhere(entries) => direct >= 1
           /\ ~DirectAnywhere(entries) => direct = 0
           /\ direct <= 1 + Cardinality(Nested(entries))

\* an archive with two text entries and a PDF entry converted by pdftotext:
\* 'direct_read' stands once in its method
C10_Witness ==
    /\ Expanded
    /\ Cardinality({e \in Given.data.entries : LowerExt(e.rel) \in DirectExts}) = 2
    /\ Count(Tok("direct_read"), last.method) = 1
    /\ Count(Tok("pdftotext"), last.method) = 1
    /\ Len(last.method) = 3

-----------------------------------------------------------------------------
(* C11 *)

\* the entries of an archive the include list admits, in sorted order
IncludedEntries(entries) ==
    SortPaths({e.rel : e \in {x \in entries : LowerExt(x.rel) \in include_extensions}})

\* where the text of the last result starts the section of an entry
EntryHeads == {i \in 1..Len(last.text) : last.text[i] = <<"### File: ">>}

\* the k-th of them
EntryHead(k) == CHOOSE i \in EntryHeads : Cardinality({j \in EntryHeads : j < i}) = k - 1

\* the section that starts at i holds the inline error note
NoteAt(i) ==
    /\ i + 3 <= Len(last.text)
    /\ last.text[i + 2] = <<"[">>
    /\ last.text[i + 3] = <<"Error processing file: ">>

\* the section that starts at i holds a fenced block
FenceAt(i) == i + 2 <= Len(last.text) /\ last.text[i + 2][1] = "fence"

\* the external calls of the last operation that raised an exception no
\* chain catches
Uncaught == {j \in 1..Len(calls) : calls[j].out = "oserror"}

\* C11: expanding an archive whose extraction succeeds and that holds no
\* archive itself always returns, with a method that begins with
\* 'zip_extract+'.  The text has one section per admitted entry, in sorted
\* order, whatever happened to the entries before it; the section of an entry
\* whose processing raised holds the note '[Error processing file: ...]', every
\* other section a fenced block, and there are exactly as many notes as
\* exceptions raised, each with str(e) in the section of the entry whose file
\* (or the copy bridged from it) the failing call was given.
C11_EntryErrorDoesNotAbort ==
    (/\ last.op \in {"process_file", "extract_zip"}
     /\ LowerExt(last.path) = ZIP
     /\ ValidZip(Given.data) /\ Given.readable /\ Given.data.flaw = "none"
     /\ ArchiveEntries(Given.data.entries) = {}) =>
        LET sorted == IncludedEntries(Given.data.entries)
        IN /\ last.kind = "ret"
           /\ last.method[1] = Tok("zip_extract")
           /\ Cardinality(EntryHeads) = Len(sorted)
           /\ \A k \in 1..Len(sorted) :
                  /\ last.text[EntryHead(k) + 1] = Flat(sorted[k])
                  /\ NoteAt(EntryHead(k)) \/ FenceAt(EntryHead(k))
           /\ Cardinality({i \in EntryHeads : NoteAt(i)}) = Cardinality(Uncaught)
           /\ \A j \in Uncaught :
                  calls[j].path # <<>> =>
                      \E i \in EntryHeads :
                          /\ NoteAt(i)
                          /\ SplitStem(last.text[i + 1]) = SplitStem(Basename(calls[j].path))
                          /\ SubSeq(last.text, i + 4, i + 3 + Len(RunMsg("oserror", calls[j].argv, calls[j].path)))
                                 = RunMsg("oserror", calls[j].argv, calls[j].path)

\* the PDF entry of an archive raised, its section holds the note, and the
\* text entry sorted after it was still read
C11_Witness ==
    /\ last.op = "extract_zip"
    /\ last.kind = "ret"
    /\ Cardinality(EntryHeads) = 3
    /\ last.text[EntryHead(2) + 1] = <<"c">> \o PDF
    /\ NoteAt(EntryHead(2))
    /\ last.text[EntryHead(3) + 1] = <<"d">> \o TXT
    /\ FenceAt(EntryHead(3))
    /\ last.text[EntryHead(3) + 3] = RawText(Bytes("D"))[1]
    /\ last.method = <<Tok("zip_extract"), Tok("direct_read")>>

-----------------------------------------------------------------------------
(* C12 *)

\* the last operation parsed a message and returned its document
EmailDone(l) == l.op = "process_email" /\ l.kind = "ret" /\ l.method[1] = Tok("email")

\* the regular files of the attachments folder beside a message, in fs
FolderFiles(fs, eml_path) ==
    IF auto_detect_attachments(fs, eml_path) = <<>> THEN {}
    ELSE FilesIn(fs, auto_detect_attachments(fs, eml_path))

\* the MIME parts of a message that carry an attachment, in walk order
AttachmentParts(parts) ==
    SelectSeq(parts, LAMBDA q : q.disp = "attachment" /\ q.filename # <<>>)

\* the attachments source a text reports in its metadata
ReportedSource(text) ==
    LET at == {i \in 1..(Len(text) - 1) : text[i] = <<"- **Attachments Source**: ">>}
    IN IF at = {} THEN <<>> ELSE text[(CHOOSE i \in at : TRUE) + 1]

\* what lies outside the temporary-file root is the same in two file systems
SameOutsideTmp(fs1, fs2) ==
    LET keep(fs) == {q \in DOMAIN fs : q[1] # TmpRoot[1]}
    IN keep(fs1) = keep(fs2) /\ \A q \in keep(fs1) : fs1[q] = fs2[q]

\* C12: a step of process_email that returns a message's document resolves
\* the attachments from one source only.  If the folder beside the message
\* held a regular file when the step began, the attachment list is exactly
\* the files of that folder, the source reported is 'Local folder', and
\* nothing outside the temporary directories is created or written.
\* Otherwise the list is exactly the MIME parts with an attachment
\* disposition and a filename, in order, each at attachments directory +
\* filename, and the source reported is 'Extracted from email'.
C12_AttachmentSourceExclusive ==
    [][EmailDone(last') =>
          LET folder == FolderFiles(Fs, last'.path)
              atts == last'.info.attachments
              parts == AttachmentParts(PartsOf(Fs[last'.path].data))
              dir == IF auto_detect_attachments(Fs, last'.path) # <<>>
                     THEN auto_detect_attachments(Fs, last'.path)
                     ELSE Append(Dirname(last'.path), AttachmentFolderNames[1])
          IN IF folder # {}
             THEN /\ Len(atts) = Cardinality(folder)
                  /\ {atts[i].path : i \in 1..Len(atts)} = folder
                  /\ \A i \in 1..Len(atts) : atts[i].filename = <<Basename(atts[i].path)>>
                  /\ ReportedSource(last'.text) = LocalFolder
                  /\ SameOutsideTmp(Fs, Fs')
             ELSE /\ Len(atts) = Len(parts)
                  /\ \A i \in 1..Len(atts) :
                         /\ atts[i].filename = parts[i].filename
                         /\ atts[i].path = Join(dir, parts[i].filename)
                         /\ Fs'[Norm(atts[i].path)].data = parts[i].data
                  /\ ReportedSource(last'.text) = ExtractedFromEmail
      ]_vars

\* a message beside a folder of two files returned a document whose two
\* attachments are the files of the folder
C12_Witness ==
    /\ EmailDone(last)
    /\ ReportedSource(last.text) = LocalFolder
    /\ Len(last.info.attachments) = 2
    /\ \A i \in 1..2 : Dirname(last.info.attachments[i].path)
                           = Append(SourceDir, AttachmentFolderNames[2])
    /\ \E i \in 1..Len(PartsOf(Given.data)) : PartsOf(Given.data)[i].disp = "attachment"

-----------------------------------------------------------------------------
(* C13 *)

\* how many documents of a message a text holds
EmailDocuments(text) == Cardinality({i \in 1..Len(text) : text[i] = <<"# Email Document">>})

\* the attachments of the last result that are messages themselves
EmlAttachments ==
    {i \in 1..Len(last.info.attachments) : LowerExt(last.info.attachments[i].path) = EML}

\* C13: in a document process_email returns, every attachment whose
\* extension is .eml is reported as '[Attachment type '.eml' not supported for
\* extraction]' under its own heading, and, unless an attachment is an archive,
\* the text holds the document of one message only: process_email did not run
\* again for an attachment.
C13_EmlAttachmentNotReentered ==
    EmailDone(last) =>
        /\ (\A i \in 1..Len(last.info.attachments) :
                LowerExt(last.info.attachments[i].path) # ZIP)
               => EmailDocuments(last.text) = 1
        /\ \A i \in EmlAttachments :
               \E j \in 1..(Len(last.text) - 4) :
                   /\ last.text[j] = <<"### ">>
                   /\ last.text[j + 1] = Flat(last.info.attachments[i].filename)
                   /\ last.text[j + 2] = <<"[Attachment type ">>
                   /\ last.text[j + 3] = EML
                   /\ last.text[j + 4] = <<" not supported for extraction]">>

\* a message with a .eml attachment returned its document
C13_Witness ==
    /\ EmailDone(last)
    /\ EmlAttachments # {}
    /\ \E j \in 1..(Len(last.text) - 1) :
           last.text[j] = <<"[Attachment type ">> /\ last.text[j + 1] = EML

-----------------------------------------------------------------------------
(* C14 *)

\* the parts of a message that are not attachments and have a content type
BodyParts(parts, ctype) ==
    SelectSeq(parts, LAMBDA q : q.disp # "attachment" /\ q.ctype = ctype)

\* the body the two-branch priority gives: the Markdown of the HTML part if
\* there is one and its Markdown is not empty, else the plain-text part, else
\* nothing
ResolvedBody(parts) ==
    LET html == BodyParts(parts, "text/html")
        plain == BodyParts(parts, "text/plain")
    IN IF html # <<>> /\ H2T(html[Len(html)].data) # <<>>
       THEN H2T(html[Len(html)].data)
       ELSE IF plain # <<>> THEN PartText(plain[Len(plain)].data)
       ELSE <<>>

\* what stands in a text between '## Email Content' and the attachments
\* section
RenderedBody(text) ==
    LET from == CHOOSE i \in 1..Len(text) : text[i] = <<"## Email Content">>
        to == CHOOSE i \in 1..Len(text) :
                  /\ text[i] \in {<<"## Attachments (files)">>, <<"## Attachments">>}
                  /\ i > from
                  /\ \A j \in (from + 1)..(i - 1) :
                         text[j] \notin {<<"## Attachments (files)">>, <<"## Attachments">>}
    IN SubSeq(text, from + 1, to - 1)

\* C14: the body of a document process_email returns is resolved from the
\* parts that are not attachments: the Markdown of the HTML part if it is not
\* empty, otherwise the plain-text part; if that gives nothing, the marker
\* '[No email body content found]' stands in its place.
C14_BodyResolution ==
    EmailDone(last) =>
        RenderedBody(last.text) =
            IF ResolvedBody(PartsOf(Given.data)) # <<>>
            THEN ResolvedBody(PartsOf(Given.data))
            ELSE <<<<"[No email body content found]">>>>

\* a message whose HTML part renders as nothing, with two plain-text parts
\* and a plain-text attachment: the body is the plain-text part
C14_Witness ==
    /\ EmailDone(last)
    /\ \E i \in 1..Len(PartsOf(Given.data)) :
           PartsOf(Given.data)[i].ctype = "text/html" /\ PartsOf(Given.data)[i].data = VoidHtml
    /\ RenderedBody(last.text) = PartText(Bytes("p2"))

-----------------------------------------------------------------------------
(* C15 *)

\* the method process_email builds for an attachments source
EmailMethod(source) == <<Tok("email"), SourceTag(source)>>

\* C15: every step of process_email on a message that parses returns a
\* method 'email+local_folder' if the folder beside the message held a
\* regular file when the step began, and 'email+extracted_from_email'
\* otherwise.
C15_EmailMethodNamesSource ==
    [][(/\ last'.op = "process_email"
        /\ OpenError(Fs, last'.path) = ""
        /\ Fs[last'.path].data.k = "eml") =>
           /\ last'.kind = "ret"
           /\ last'.method = IF FolderFiles(Fs, last'.path) # {}
                             THEN EmailMethod(LocalFolder)
                             ELSE EmailMethod(ExtractedFromEmail)
      ]_vars

-----------------------------------------------------------------------------
(* C16 *)

\* the name of a file ends in .eml, whatever the case of its letters
IsEmlName(file) ==
    /\ Len(file) >= 4
    /\ file[Len(file) - 3] = "."
    /\ file[Len(file) - 2] \in {"e", "E"}
    /\ file[Len(file) - 1] \in {"m", "M"}
    /\ file[Len(file)] \in {"l", "L"}

\* C16: detect_processing_mode returns the forced mode when one is set;
\* without one it returns 'single_email' if and only if the list has exactly
\* one file and its name ends in .eml in any case, and 'standard' otherwise.
C16_ModeSelection ==
    value.fn = "detect_processing_mode" =>
        IF given.force_format \notin {"None", ""}
        THEN value.out = given.force_format
        ELSE /\ value.out \in {"single_email", "standard"}
             /\ value.out = "single_email" <=>
                    (Len(given.files) = 1 /\ IsEmlName(given.files[1]))

\* auto-detection chose the email format for one file named with capitals
C16_Witness ==
    /\ value.fn = "detect_processing_mode"
    /\ given.force_format = "None"
    /\ Len(given.files) = 1
    /\ given.files[1] # Lower(given.files[1])
    /\ value.out = "single_email"

-----------------------------------------------------------------------------
(* C17 *)

\* the places of a text where a whitespace-delimited token ends
TokenEnds(text) ==
    {i \in 1..Len(text) :
        /\ text[i] \notin Whitespace
        /\ i = Len(text) \/ text[i + 1] \in Whitespace}

\* the last character of a text that is not whitespace, "" if there is none
LastVisible(text) ==
    LET visible == {i \in 1..Len(text) : text[i] \notin Whitespace}
    IN IF visible = {} THEN ""
       ELSE text[CHOOSE i \in visible : \A j \in visible : j <= i]

\* C17: estimate_tokens returns the number of whitespace-delimited tokens
\* of the text, plus one if the trimmed text ends in '.', '!' or '?'; 0 for a
\* text that is empty or only whitespace; and 0, 2, 3 and 8 for the four
\* documented texts.
C17_TokenEstimate ==
    value.fn = "estimate_tokens" =>
        /\ value.out = Cardinality(TokenEnds(given.text))
                       + (IF LastVisible(given.text) \in {".", "!", "?"} THEN 1 ELSE 0)
        /\ (\A i \in 1..Len(given.text) : given.text[i] \in Whitespace) => value.out = 0
        /\ given.text = <<>> => value.out = 0
        /\ given.text = <<"H", "e", "l", "l", "o", " ", "w", "o", "r", "l", "d">>
               => value.out = 2
        /\ given.text = <<"H", "e", "l", "l", "o", ",", " ", "w", "o", "r", "l", "d", "!">>
               => value.out = 3
        /\ (Len(given.text) = 35 /\ given.text \in Examples) => value.out = 8

\* the documented text of two sentences was estimated at 8
C17_Witness ==
    /\ value.fn = "estimate_tokens"
    /\ Len(given.text) = 35
    /\ Cardinality(TokenEnds(given.text)) = 7
    /\ value.out = 8

-----------------------------------------------------------------------------
(* C18 *)

Handlers ==
    {"convert_pdf_to_text", "convert_epub_to_text", "convert_docx_to_text",
     "convert_doc_to_text", "convert_rtf_to_text", "extract_zip", "process_email",
     "convert_txt_to_text"}

\* the handler the routing table names for a lower-cased extension
HandlerFor(ext) ==
    CASE ext = PDF -> "convert_pdf_to_text"
      [] ext = EPUB -> "convert_epub_to_text"
      [] ext = DOCX -> "convert_docx_to_text"
      [] ext = DOC -> "convert_doc_to_text"
      [] ext = RTF -> "convert_rtf_to_text"
      [] ext = ZIP -> "extract_zip"
      [] ext = EML -> "process_email"
      [] OTHER -> "convert_txt_to_text"

\* result l is one only the archive or the email handler gives
Composite(l) ==
    /\ l.kind = "ret"
    /\ \/ l.method[1] \in {Tok("zip_extract"), Tok("email")}
       \/ l.method \in {M("failed-bad_zip"), M("failed-exception"), M("failed-parse")}

\* the first external call of the operation was argv on the file itself
FirstCall(log, argv, path) ==
    log # <<>> /\ log[1].argv = argv /\ log[1].path = path

\* the trace a handler leaves when it is the one that ran on the file of
\* result l; log is the operation's call log
Trace(h, l, log) ==
    CASE h = "convert_pdf_to_text" ->
             /\ ~Composite(l)
             /\ log # <<>>
             /\ \/ log[1].argv = UvxProbe
                \/ /\ log[1].argv \in {<<"uvx", "markitdown">>, <<"markitdown">>}
                   /\ log[1].path = l.path
       [] h = "convert_epub_to_text" ->
             ~Composite(l) /\ FirstCall(log, <<"ebook-convert">>, l.path)
       [] h = "convert_docx_to_text" ->
             ~Composite(l) /\ FirstCall(log, PandocDocx, l.path)
       [] h = "convert_rtf_to_text" ->
             ~Composite(l) /\ FirstCall(log, PandocRtf, l.path)
       [] h = "convert_doc_to_text" ->
             /\ ~Composite(l)
             /\ IF log # <<>> THEN log[1].argv = Soffice
                ELSE \/ l.kind = "raise"
                     \/ l.text = Placeholder("Failed to convert DOC file: ", l.path)
       [] h = "extract_zip" ->
             /\ l.kind = "ret"
             /\ \/ l.method[1] = Tok("zip_extract")
                \/ l.method = M("failed-bad_zip")
                \/ l.method = M("failed-exception")
                   /\ l.text[2] = <<"Error processing ZIP file: ">>
       [] h = "process_email" ->
             /\ l.kind = "ret"
             /\ \/ l.method[1] = Tok("email")
                \/ l.method = M("failed-parse")
                \/ l.method = M("failed-exception")
                   /\ l.text[2] = <<"Error processing email file: ">>
       [] OTHER ->
             /\ l.kind = "ret"
             /\ log = <<>>
             /\ \/ l.method = M("direct_read")
                \/ l.method = M("failed")
                   /\ l.text = Placeholder("Failed to read file: ", l.path)

\* C18: every call of process_file leaves the trace of the handler the
\* routing table names for the lower-cased extension of the file, with every
\* extension outside the seven routed ones going to the direct read, and the
\* trace of no other handler: one handler ran.
C18_RoutesToOneHandler ==
    last.op = "process_file" =>
        LET routed == HandlerFor(LowerExt(last.path))
        IN /\ Trace(routed, last, calls)
           /\ \A h \in Handlers \ {routed} : ~Trace(h, last, calls)

\* a file whose extension is written in capitals went to the PDF chain
C18_Witness ==
    /\ last.op = "process_file"
    /\ SplitExt(Basename(last.path)) # LowerExt(last.path)
    /\ LowerExt(last.path) = PDF
    /\ last.kind = "ret"
    /\ last.method = M("pdftotext")

-----------------------------------------------------------------------------
(* C19 *)

\* C19: after a teardown in which every removal succeeded, the files and
\* directories that exist are those that existed before the run (the output
\* file, written outside the directories of the model, aside): nothing a
\* conversion created is left, neither in the temporary-file root nor beside
\* a message.
C19_NothingPersists ==
    (last.op = "cleanup" /\ \A i \in 1..Len(calls) : calls[i].out = "ok") =>
        DOMAIN Fs = DOMAIN Scenarios[scenario]

-----------------------------------------------------------------------------
(* C20 *)

\* the world of this state in a run of the interpreter whose hash seed is seed
WorldSeeded(seed) == [World EXCEPT !.hash_seed = seed]

\* C20: a step of extract_zip returns the method that any run returns for
\* the same archive in the same file system with the same outcomes of the
\* same external calls, whatever the hash seed of that run's interpreter.
C20_ZipMethodDeterministic ==
    [][(last'.op = "extract_zip" /\ last'.kind = "ret") =>
          \A seed \in HashSeeds :
              \A r \in extract_zip(last'.path, WorldSeeded(seed)) :
                  (r.kind = "ret" /\ r.w.calls = calls' /\ r.text = last'.text)
                      => r.method = last'.method
      ]_vars

-----------------------------------------------------------------------------
(* C21 *)

\* C21: a PDF conversion on an instance whose uvx probe is true makes its
\* first attempt with uvx and the package argument 'markitdown[pdf]', and
\* when that attempt succeeds the method is 'markitdown-uvx'.
C21_UvxUsesPdfExtra ==
    (/\ last.op = "process_file"
     /\ LowerExt(last.path) = PDF
     /\ uvx_available = "True"
     /\ Attempts # <<>>) =>
        /\ Attempts[1].argv = <<"uvx", "markitdown[pdf]">>
        /\ Attempts[1].out = "ok" => last.method = M("markitdown-uvx")

-----------------------------------------------------------------------------
(* C22 *)

\* the call log holds the availability probe
Probed(log) == \E i \in 1..Len(log) : log[i].argv = UvxProbe

\* the call log holds an invocation of uvx markitdown
UvxInvoked(log) == \E i \in 1..Len(log) : log[i].argv = <<"uvx", "markitdown">>

\* C22: on one instance the probe 'uvx --version' does not run in an
\* operation that follows one in which it ran; once the cache holds a value
\* no operation runs the probe or changes the value; and an operation that
\* ends with the value false has made no 'uvx markitdown' invocation.
C22_ProbeOnceAndCached ==
    [][/\ Probed(calls') => ~Probed(calls)
       /\ uvx_available # "None" =>
              ~Probed(calls') /\ uvx_available' = uvx_available
       /\ uvx_available' = "False" => ~UvxInvoked(calls')
      ]_vars

-----------------------------------------------------------------------------
(* C23 *)

\* the segments of a text between '## Files in archive:' and the first
\* '## Extracted file contents:' after it
ListingSection(text) ==
    LET from == CHOOSE i \in 1..Len(text) : text[i] = <<"## Files in archive:">>
        ends == {i \in 1..Len(text) : text[i] = <<"## Extracted file contents:">>}
        to == CHOOSE i \in ends : \A j \in ends : i <= j
    IN SubSeq(text, from + 1, to - 1)

\* the strings at the given places of a text ascend strictly
Ascending(text, places) ==
    \A i, j \in places : i < j => StrLess(text[i], text[j])

\* C23: expanding an archive whose extraction succeeds names every
\* extracted file in the listing section, whatever its extension, in ascending
\* order of the relative path.  If the archive holds no archive itself, the
\* contents section has one section for each entry whose lower-cased
\* extension is in the include list, exactly one, in ascending order of the
\* relative path, and none for any other entry.
C23_EntriesSortedAndFiltered ==
    (/\ last.op \in {"process_file", "extract_zip"}
     /\ LowerExt(last.path) = ZIP
     /\ ValidZip(Given.data) /\ Given.readable /\ Given.data.flaw = "none") =>
        LET entries == Given.data.entries
            listing == ListingSection(last.text)
            names == {2 * k : k \in 1..Cardinality(entries)}
            included == {e \in entries : LowerExt(e.rel) \in include_extensions}
        IN /\ last.kind = "ret"
           /\ Len(listing) = 2 * Cardinality(entries)
           /\ \A i \in names : listing[i - 1] = <<"- ">>
           /\ {listing[i] : i \in names} = {Flat(e.rel) : e \in entries}
           /\ Ascending(listing, names)
           /\ ArchiveEntries(entries) = {} =>
                  /\ Cardinality(EntryHeads) = Cardinality(included)
                  /\ {last.text[i + 1] : i \in EntryHeads} = {Flat(e.rel) : e \in included}
                  /\ Ascending(last.text, {i + 1 : i \in EntryHeads})

\* an archive of four entries, one of them outside the include list: four
\* names listed, three sections
C23_Witness ==
    /\ last.op = "extract_zip"
    /\ last.kind = "ret"
    /\ Len(ListingSection(last.text)) = 8
    /\ ListingSection(last.text)[8] = <<"x", ".", "b", "i", "n">>
    /\ Cardinality(EntryHeads) = 3
    /\ \A i \in EntryHeads : last.text[i + 1] # <<"x", ".", "b", "i", "n">>

-----------------------------------------------------------------------------
(* C24 *)

\* the directories tempfile.mkdtemp has made that exist, and what lies in them
InTempDirs ==
    {p \in DOMAIN Fs :
        /\ Len(p) >= 2
        /\ p[1] = TmpRoot[1]
        /\ Len(p) = 2 => Fs[p].t = "dir"}

\* C24: at every point of a run, every temporary directory that exists and
\* everything in one lies under a directory registered in temp_dirs; until
\* the teardown every registered directory exists; and the teardown attempts
\* the removal of every registered directory, once each and in order, whether
\* or not an earlier removal raised, and every directory whose removal
\* succeeded is gone with all it held.
C24_TempDirsRegisteredAndRemoved ==
    /\ \A p \in InTempDirs : SubSeq(p, 1, 2) \in Range(temp_dirs)
    /\ last.op # "cleanup" => \A i \in 1..Len(temp_dirs) : IsDir(Fs, temp_dirs[i])
    /\ last.op = "cleanup" =>
           /\ Len(calls) = Len(temp_dirs)
           /\ \A i \in 1..Len(calls) :
                  /\ calls[i].argv = <<"shutil.rmtree">>
                  /\ calls[i].path = temp_dirs[i]
                  /\ calls[i].out = "ok" =>
                         \A p \in DOMAIN Fs : ~Within(p, temp_dirs[i])

\* a teardown of two registered directories: the removal of the first
\* raised, the second was still removed
C24_Witness ==
    /\ last.op = "cleanup"
    /\ Len(temp_dirs) = 2
    /\ calls[1].out = "oserror"
    /\ calls[2].out = "ok"
    /\ IsDir(Fs, temp_dirs[1])
    /\ ~IsDir(Fs, temp_dirs[2])

-----------------------------------------------------------------------------
(* C25 *)

\* the inputs of a run: the files of the source directory the include list
\* admits
TopLevelInputs ==
    {p \in FilesIn(Scenarios[scenario], SourceDir) : LowerExt(p) \in include_extensions}

\* the sum of a field over the records of file_stats
RECURSIVE SumOf(_, _)
SumOf(stats, field) ==
    IF stats = <<>> THEN 0 ELSE stats[1][field] + SumOf(Tail(stats), field)

\* C25: after compile has returned True, in either mode, file_stats holds
\* one record for each top-level input and no other, total_chars and
\* total_tokens are the sums of the records' chars and tokens, total_files is
\* the number of inputs, and the records stand in non-increasing order of
\* chars.
C25_StatsMatchInputs ==
    (value.fn = "compile" /\ value.out.returned = "True") =>
        LET stats == value.out.file_stats
        IN /\ Len(stats) = Cardinality(TopLevelInputs)
           /\ {stats[i].path : i \in 1..Len(stats)} = {Basename(p) : p \in TopLevelInputs}
           /\ value.out.total_chars = SumOf(stats, "chars")
           /\ value.out.total_tokens = SumOf(stats, "tokens")
           /\ value.out.total_files = Cardinality(TopLevelInputs)
           /\ \A i \in 1..(Len(stats) - 1) : stats[i].chars >= stats[i + 1].chars

-----------------------------------------------------------------------------
(* C26 *)

\* the attachments directory of a message: the folder found beside it, or
\* 'attachments' in its directory
AttachmentsDirOf(fs, eml_path) ==
    IF auto_detect_attachments(fs, eml_path) # <<>>
    THEN auto_detect_attachments(fs, eml_path)
    ELSE Append(Dirname(eml_path), AttachmentFolderNames[1])

\* what exists in fs2 outside the temporary-file root and did not exist, or
\* was different, in fs1
WrittenOutsideTmp(fs1, fs2) ==
    {p \in DOMAIN fs2 :
        /\ p[1] # TmpRoot[1]
        /\ p \notin DOMAIN fs1 \/ fs1[p] # fs2[p]}

\* C26: every file or directory a step of process_email creates or
\* overwrites outside the temporary-file root lies inside the attachments
\* directory of the message, whatever the filenames of the attachments.
C26_ExtractionStaysInside ==
    [][last'.op = "process_email" =>
          \A p \in WrittenOutsideTmp(Fs, Fs') :
              Within(p, AttachmentsDirOf(Fs, last'.path))
      ]_vars

-----------------------------------------------------------------------------
(* C27 *)

\* the files NamedTemporaryFile has made that exist in fs
TempFiles(fs) ==
    {p \in DOMAIN fs : Len(p) = 2 /\ p[1] = TmpRoot[1] /\ fs[p].t = "file"}

\* the extensions whose converters write to a NamedTemporaryFile
TempFileExts == {PDF, EPUB, DOCX, RTF}

\* C27: when a step of process_file on a PDF, EPUB, DOCX or RTF file
\* returns, no temporary file exists that did not exist before the step:
\* every strategy's output file has been removed, whether the strategy
\* succeeded or failed.
C27_TempFilesRemoved ==
    [][(/\ last'.op = "process_file"
        /\ LowerExt(last'.path) \in TempFileExts
        /\ last'.kind = "ret") =>
           TempFiles(Fs') \subseteq TempFiles(Fs)
      ]_vars

-----------------------------------------------------------------------------
(* C28 *)

\* the filenames the attachment parts of a message carry
OwnAttachmentNames(data) ==
    {Flat(AttachmentParts(PartsOf(data))[i].filename)
     : i \in 1..Len(AttachmentParts(PartsOf(data)))}

\* C28: a step of process_email that returns the document of the message
\* the step before it returned the document of, returns the same method; and
\* every attachment of a document either was in the directory when the run
\* started or carries the filename of an attachment part of the message
\* itself.
C28_SecondRunSameSource ==
    [][EmailDone(last') =>
          /\ (EmailDone(last) /\ last.path = last'.path) => last'.method = last.method
          /\ \A i \in 1..Len(last'.info.attachments) :
                 \/ Norm(last'.info.attachments[i].path) \in DOMAIN Scenarios[scenario]
                 \/ Flat(last'.info.attachments[i].filename)
                        \in OwnAttachmentNames(Scenarios[scenario][last'.path].data)
      ]_vars

-----------------------------------------------------------------------------
(* C29 *)

\* C29: the email_info record of a returned email document carries the
\* attachments source the processor resolved, which is the one the document's
\* metadata reports: 'Local folder' or 'Extracted from email'.
C29_InfoCarriesSource ==
    EmailDone(last) =>
        /\ last.info.attachments_source = ReportedSource(last.text)
        /\ last.info.attachments_source \in {LocalFolder, ExtractedFromEmail}

-----------------------------------------------------------------------------
(* C30 *)

\* how many sections of a text are headed by the name of an attachment
Sections(text, filename) ==
    Cardinality({j \in 1..(Len(text) - 1) :
                    text[j] = <<"### ">> /\ text[j + 1] = Flat(filename)})

\* C30: a document process_email returns has one section for each of its
\* attachments and holds the document of one message only: process_email was
\* not entered again while the attachments of the message were processed,
\* not through an archive among them either.
C30_GuardPreventsReentry ==
    EmailDone(last) =>
        /\ \A i \in 1..Len(last.info.attachments) :
               Sections(last.text, last.info.attachments[i].filename) = 1
        /\ EmailDocuments(last.text) = 1

====
